---- MODULE Spec2Model ----
\* Verification model of the market-intelligence agent pipeline:
\* BaseAgent.run (core/agents/base_agent.py), the four stage agents, the
\* AgentOrchestrator (core/workflow/agent_orchestrator.py), the validated
\* MarketIntelligenceState (core/state.py) and the history store (core/db.py).
EXTENDS Integers, Sequences, FiniteSets, TLC

\* ---------------------------------------------------------------- bounds
MaxTime == 1        \* the clock runs over 0..MaxTime ticks
TicksPerSec == 2    \* clock ticks per second (datetime.now() is sub-second)
MaxTrends == 4      \* trends handed to the confidence score
MaxOpps == 3        \* opportunities handed to the confidence score
MaxOpportunities == 5  \* opportunities handed to the action-plan sub-task
MaxMinutes == 1        \* minutes the formatter's clock runs
MaxCacheTime == 4      \* how far the search cache's clock runs
CacheSize == 2         \* maxsize of the search cache (Settings.SEARCH_CACHE_SIZE, scaled)
CacheTTL == 2          \* ttl of the search cache (Settings.SEARCH_CACHE_TTL, scaled)
MaxRunTicks == 3       \* how far the clock of repeated workflow runs goes
MaxRecs == 3        \* recommendations handed to the roadmap
MaxDeviations == 2  \* external calls of one run that end other than the run's collaborators do
MaxFaults == 1      \* failed external calls and raises within one workflow call

\* ---------------------------------------------------------------- constants
MinQueryLen == 5    \* state.py: len(v.strip()) < 5
NoTime == -1        \* Optional[datetime] = None
KeywordLimit == 5     \* description.lower().split()[:5]
BaseConfidence == 70  \* base_confidence = 0.7, in hundredths
BoostPerMatch == 5    \* (trend_alignment + opportunity_alignment) * 0.05
MaxBoost == 30        \* min(0.3, ...)
MaxConfidence == 100  \* min(1.0, ...)
FallbackConfidence == 70  \* except: return 0.7
TopOpportunities == 3  \* opportunities[:3]
WebMinLen == 100      \* len(result["content"]) > 100
ContentMinLen == 50   \* len(content.strip()) > 50
UnparsedQuality == 7  \* "data_quality_score": 7 of the inner except
DefaultQuality == 5   \* "data_quality_score": 5 of the outer except
MetricsQuality == 7   \* processed_data.get("data_quality_score", 7)
SecPerMin == 60     \* report directories are stamped to the minute

\* ---------------------------------------------------------------- strings
\* A Python str is a sequence of one-character strings; None is NoneVal.
NoneVal == <<"<None>">>
\* The characters of the strings used below: str.strip() removes Whitespace,
\* and DomainChars are those of them in the class [a-zA-Z0-9\s\-].
Whitespace == {" "}
DomainChars == {"a", "b", "c", "d", "e", "H", "A", "I", "7", " ", "-"}

RECURSIVE LStrip(_)
LStrip(s) == IF s # <<>> /\ Head(s) \in Whitespace THEN LStrip(Tail(s)) ELSE s

RECURSIVE RStrip(_)
RStrip(s) ==
    IF s # <<>> /\ s[Len(s)] \in Whitespace
    THEN RStrip(SubSeq(s, 1, Len(s) - 1))
    ELSE s

Strip(s) == RStrip(LStrip(s))

\* re.match(r'^[a-zA-Z0-9\s\-]+$', v)
DomainMatches(v) == Len(v) >= 1 /\ \A i \in 1..Len(v) : v[i] \in DomainChars

\* validate_market_domain: raises unless the pattern matches, else v.strip()
validate_market_domain(v) ==
    IF DomainMatches(v) THEN [ok |-> TRUE, value |-> Strip(v)]
    ELSE [ok |-> FALSE, value |-> v]

\* validate_query: "if v and len(v.strip()) < 5: raise"; "v.strip() if v else v"
validate_query(v) ==
    IF v # NoneVal /\ v # <<>> /\ Len(Strip(v)) < MinQueryLen
    THEN [ok |-> FALSE, value |-> v]
    ELSE [ok |-> TRUE,
          value |-> IF v # NoneVal /\ v # <<>> THEN Strip(v) ELSE v]

\* ---------------------------------------------------------------- requests
QueryPadded == <<" ", "a", "b", "c", "d", "e">>
QueryShort == <<"A", "I">>
DomainPlain == <<"H", "-", "7">>
DomainAmp == <<"H", "&">>
Question == <<"w", "h", "y">>

\* (query, market_domain, question) triples handed to run_intelligence_workflow
Requests ==
    { [query |-> QueryPadded, market_domain |-> DomainPlain, question |-> NoneVal],
      [query |-> QueryShort, market_domain |-> DomainPlain, question |-> Question],
      [query |-> QueryPadded, market_domain |-> DomainAmp, question |-> NoneVal] }

\* ---------------------------------------------------------------- stages
AgentKeys == {"reader", "analyst", "strategist", "formatter"}
StageOrder == <<"reader", "analyst", "strategist", "formatter">>

AgentName(a) ==
    CASE a = "reader" -> "Reader Agent"
      [] a = "analyst" -> "Analyst Agent"
      [] a = "strategist" -> "Strategist Agent"
      [] a = "formatter" -> "Formatter Agent"

AgentDescription(a) ==
    CASE a = "reader" -> "Collects data from web sources, news APIs, and documents"
      [] a = "analyst" ->
           "Analyzes collected data to extract trends, opportunities, and metrics"
      [] a = "strategist" ->
           "Generates strategic recommendations and actionable insights"
      [] a = "formatter" -> "Formats charts, reports, and handles export functionality"

\* current_step label and progress checkpoint set before a stage's run
StepLabel(a) ==
    CASE a = "reader" -> "Data Collection"
      [] a = "analyst" -> "Data Analysis"
      [] a = "strategist" -> "Strategic Planning"
      [] a = "formatter" -> "Report Generation"

\* The checkpoints of the analyst and the strategist exchanged.
Checkpoint_swapped(a) ==
    CASE a = "reader" -> 10
      [] a = "analyst" -> 65
      [] a = "strategist" -> 35
      [] a = "formatter" -> 85

Checkpoint(a) ==
    CASE a = "reader" -> 10
      [] a = "analyst" -> 35
      [] a = "strategist" -> 65
      [] a = "formatter" -> 85

StageIndex(a) == CHOOSE i \in 1..Len(StageOrder) : StageOrder[i] = a

\* update_progress value and task label an agent shows while its execute is
\* suspended on the gather of its sub-tasks
GatherProgress(a) == IF a = "reader" THEN 30 ELSE 40

GatherTask(a) ==
    CASE a = "reader" -> "Collecting data from sources"
      [] a = "analyst" -> "Running analysis algorithms"
      [] a = "strategist" -> "Generating strategic recommendations"
      [] a = "formatter" -> "Generating charts and formatting content"

DoneTask(a) ==
    CASE a = "reader" -> "Data collection completed"
      [] a = "analyst" -> "Analysis completed"
      [] a = "strategist" -> "Strategic analysis completed"
      [] a = "formatter" -> "Formatting completed"

\* update_progress clamps to [0,100]
ClampProgress(p) == IF p < 0 THEN 0 ELSE IF p > 100 THEN 100 ELSE p

\* The sub-tasks of a stage, named by the output key each one produces: the
\* gathered coroutines and the pass that runs after the gather.
SubTasks(a) ==
    CASE a = "reader" ->
           {"web_content", "news_data", "trending_topics", "processed_data"}
      [] a = "analyst" ->
           {"market_trends", "opportunities", "competitive_landscape",
            "key_metrics", "analysis_synthesis"}
      [] a = "strategist" ->
           {"strategic_recommendations", "action_plans", "risk_assessment",
            "success_metrics", "strategic_roadmap"}
      [] a = "formatter" ->
           {"chart_files", "report_content", "dashboard_data", "export_files"}

\* Output keys whose value is a list (the others hold a mapping or a text).
ListKeys ==
    {"web_content", "news_data", "trending_topics", "market_trends",
     "opportunities", "strategic_recommendations", "action_plans",
     "chart_files"}

\* What a sub-task returns when its external call succeeds.
Genuine(k) == IF k \in ListKeys THEN <<k>> ELSE "genuine"

\* What the sub-task's own handler returns instead.
Fallback(k) ==
    CASE k \in {"market_trends", "opportunities"} -> <<"fallback1", "fallback2">>
      [] k = "strategic_recommendations" -> <<"fallback1">>
      [] k \in ListKeys \ {"market_trends", "opportunities",
                           "strategic_recommendations"} -> <<>>
      [] OTHER -> "default"

\* Outcome of the external call inside one sub-task.
CallOutcomes == {"ok", "raise", "cancel"}

\* A bare "except:" in place of "except Exception".
HandlerCatches_bare(outcome) == outcome \in {"raise", "cancel"}

\* "except Exception" of every sub-task: asyncio.CancelledError derives from
\* BaseException, so the handler catches a raised Exception only.
HandlerCatches(outcome) == outcome = "raise"

\* One sub-task: its value, or the exception that leaves it.
SubTaskResult(k, outcome) ==
    IF outcome = "ok" THEN [raised |-> FALSE, value |-> Genuine(k)]
    ELSE IF HandlerCatches(outcome) THEN [raised |-> FALSE, value |-> Fallback(k)]
    ELSE [raised |-> TRUE, value |-> outcome]

\* The outcomes of a stage's sub-task calls, one per sub-task, with at most
\* budget of them not "ok".
FaultCount(a, p) == Cardinality({k \in SubTasks(a) : p[k] # "ok"})

\* A raise outside the sub-task handlers counts against the same budget.
DefectCount(defect) == IF defect THEN 1 ELSE 0

FaultPlans(a, budget) ==
    UNION { { [k \in SubTasks(a) |-> IF k \in S THEN f[k] ELSE "ok"] :
                f \in [S -> CallOutcomes \ {"ok"}] } :
            S \in {T \in SUBSET SubTasks(a) : Cardinality(T) <= budget} }

\* ---------------------------------------------------------------- dictionaries
EmptyDict == [k \in {} |-> TRUE]

\* dict.get(key, default)
Get(d, k, default) == IF k \in DOMAIN d THEN d[k] ELSE default

\* The context replaced by the stage's result instead of merged with it.
Update_replace(d, other) == other

\* dict.update(other): keys of other are added or overwritten, none removed
Update(d, other) ==
    [k \in (DOMAIN d) \cup (DOMAIN other) |->
        IF k \in DOMAIN other THEN other[k] ELSE d[k]]

\* ---------------------------------------------------------------- execute
\* os.path.join(REPORTS_DIR, "report_" + now.strftime("%Y%m%d_%H%M"))
ReportDir(t) == <<"reports", "report", (t \div TicksPerSec) \div SecPerMin>>

\* Keys of the mapping a stage's execute returns.
ResultKeys(a) ==
    {"success"} \cup SubTasks(a) \cup
    (IF a = "reader" THEN {"total_sources"} ELSE {}) \cup
    (IF a = "formatter" THEN {"report_dir"} ELSE {})

\* The execute of stage a under the sub-task outcomes plan; defect says that
\* code outside every sub-task handler raises (for example os.makedirs of the
\* formatter). Exceptions that leave a sub-task leave execute.
execute(a, plan, defect, t) ==
    LET sub == [k \in SubTasks(a) |-> SubTaskResult(k, plan[k])]
        escaped == {k \in SubTasks(a) : sub[k].raised}
    IN  IF \E k \in escaped : sub[k].value = "cancel"
        THEN [kind |-> "cancelled", plan |-> plan, defect |-> defect,
              value |-> EmptyDict]
        ELSE IF escaped # {} \/ defect
        THEN [kind |-> "error", plan |-> plan, defect |-> defect,
              value |-> EmptyDict]
        ELSE [kind |-> "ok", plan |-> plan, defect |-> defect,
              value |-> [k \in ResultKeys(a) |->
                  CASE k = "success" -> TRUE
                    [] k = "total_sources" ->
                         Len(sub["web_content"].value) + Len(sub["news_data"].value)
                    [] k = "report_dir" -> ReportDir(t)
                    [] OTHER -> sub[k].value]]

\* ---------------------------------------------------------------- state
VARIABLES
    now,              \* datetime.now(), in ticks
    faults,           \* what went wrong so far in this call (failed calls, raises)
    workflow_status, current_step, progress, start_time, end_time, results,
    agent_status, agent_start, agent_end, agent_error, agent_progress,
    agent_task, agent_results,
    call_pc,          \* where the run_intelligence_workflow call stands
    input_data,       \* its accumulating context
    stage_results,    \* its reader_results .. formatter_results locals
    request,          \* its query, market_domain and question arguments
    ret,              \* what the call returned
    invoked,          \* the stages whose run this call has invoked, in order
    passed,           \* the context handed to each of them
    last_run,         \* how the latest BaseAgent.run of this call ended
    save_log,         \* what _save_analysis_to_history did in this call
    db,               \* the states table, keyed by id
    cancel_pc,        \* where a cancel_workflow call stands
    cancel_pre,       \* the agent statuses it found when it was called (while it runs)
    snap,             \* the latest get_workflow_status result
    single_pc,        \* the agent a run_single_agent call is running, or "none"
    conf_rec, conf_trends, conf_opps,   \* arguments of the confidence score
    conf_score,       \* and its latest value, in hundredths
    plan_opps,        \* _create_action_plans: its opportunities argument
    plan_pc,          \* where the call stands: "loop", "done"
    plan_calls,       \* the opportunities it has invoked the LLM for, in order
    plan_outcomes,    \* how each of these invocations ended
    action_plans,     \* its action_plans local
    plan_ret,         \* what it returned
    news_key,         \* Settings.NEWSDATA_IO_KEY is set
    newsdata,         \* ReaderAgent.newsdata is a client (not None)
    env,              \* how the sources and the LLM of a run behave
    pipe_pc,          \* the stage a detailed run is about to run, "done", "failed"
    pipe_ctx,         \* its accumulating context
    pipe_in,          \* the context handed to the stage it ran last
    pipe_ext,         \* how the external calls of that stage ended
    pipe_results,     \* the stages' results
    pipe_last,        \* the stage it ran last
    pipe_devs,        \* calls so far that ended other than env says
    pipe_final,       \* its final results
    road_recs,        \* _create_strategic_roadmap: its recommendations argument
    road_map,         \* and the roadmap it returned for them
    fmt_now,          \* datetime.now() of the formatter's runs, in ticks
    disk,             \* Settings.REPORTS_DIR: the files of each directory in it
    fmt_last,         \* the latest FormatterAgent.execute: inputs, findings, result
    hist_table,       \* the states table of a DatabaseManager, rows by id
    hist_saved,       \* the state object save_state was last given for each id
    hist_load,        \* the latest load_state: its id, what it returned
    cache_now,        \* the timer of the search cache
    search_cache,     \* MarketIntelligenceAgent.search_cache: entries, oldest first
    search_pc,        \* the search_with_tavily call in progress: query, attempt
    search_step,      \* what its latest attempt did
    search_ret,       \* what the latest call returned or raised
    ov_runs,          \* one agent's run, per caller: "none" or "executing"
    ov_status,        \* the agent's status
    ov_progress,      \* its progress
    ov_results,       \* the caller whose execute wrote its results, "" for none
    ov_found,         \* the status the invocation entered last found
    id_now,           \* datetime.now() of repeated workflow runs, in ticks
    id_start,         \* the orchestrator's start_time
    id_pc,            \* each run_intelligence_workflow call: "none", "running", "done"
    id_ids,           \* the workflow_id (= state_id) each call returned
    id_db,            \* the states table
    fc_input,         \* search_and_scrape: its query (by length) and num_results
    fc_pc,            \* where the call stands: "running", "returned", "collected"
    fc_log,           \* the payload and the outcome of each request it issued
    fc_slept,         \* the seconds of each time.sleep it made
    fc_ret,           \* what it returned
    fc_web            \* the web content the reader made of it

orchVars == <<workflow_status, current_step, progress, start_time, end_time, results>>
agentVars == <<agent_status, agent_start, agent_end, agent_error, agent_progress,
               agent_task, agent_results>>
callVars == <<call_pc, input_data, stage_results, request, ret, invoked, passed, last_run,
              save_log>>
confVars == <<conf_rec, conf_trends, conf_opps, conf_score>>
planVars == <<plan_opps, plan_pc, plan_calls, plan_outcomes, action_plans, plan_ret>>
pipeVars == <<news_key, newsdata, env, pipe_pc, pipe_ctx, pipe_in, pipe_ext, pipe_results,
              pipe_last, pipe_devs, pipe_final>>
roadVars == <<road_recs, road_map>>
fmtVars == <<fmt_now, disk, fmt_last>>
histVars == <<hist_table, hist_saved, hist_load>>
cacheVars == <<cache_now, search_cache, search_pc, search_step, search_ret>>
ovVars == <<ov_runs, ov_status, ov_progress, ov_results, ov_found>>
idVars == <<id_now, id_start, id_pc, id_ids, id_db>>
fcVars == <<fc_input, fc_pc, fc_log, fc_slept, fc_ret, fc_web>>
moreVars == <<roadVars, fmtVars, histVars, cacheVars, ovVars, idVars, fcVars>>
fnVars == <<confVars, planVars, pipeVars, moreVars>>
auxVars == <<single_pc, fnVars>>
vars == <<now, faults, orchVars, agentVars, callVars, db, cancel_pc, cancel_pre, snap,
          auxVars>>

NoSnap == [taken |-> FALSE]
NoRun == [agent |-> "", cancel |-> FALSE, defect |-> FALSE, exec |-> "",
          outcome |-> "", value |-> EmptyDict]

InFlight == call_pc \in AgentKeys

\* The orchestrator and its four agents as constructed.
InitOrchestrator ==
    /\ now = 0
    /\ faults = 0
    /\ workflow_status = "idle"
    /\ current_step = ""
    /\ progress = 0
    /\ start_time = NoTime
    /\ end_time = NoTime
    /\ results = EmptyDict
    /\ agent_status = [a \in AgentKeys |-> "idle"]
    /\ agent_start = [a \in AgentKeys |-> NoTime]
    /\ agent_end = [a \in AgentKeys |-> NoTime]
    /\ agent_error = [a \in AgentKeys |-> "None"]
    /\ agent_progress = [a \in AgentKeys |-> 0]
    /\ agent_task = [a \in AgentKeys |-> ""]
    /\ agent_results = [a \in AgentKeys |-> EmptyDict]
    /\ call_pc = "idle"
    /\ input_data = EmptyDict
    /\ stage_results = [a \in AgentKeys |-> EmptyDict]
    /\ request = EmptyDict
    /\ ret = EmptyDict
    /\ invoked = <<>>
    /\ passed = <<>>
    /\ last_run = NoRun
    /\ save_log = "none"
    /\ db = EmptyDict
    /\ cancel_pc = "idle"
    /\ cancel_pre = [a \in AgentKeys |-> "idle"]
    /\ snap = NoSnap
    /\ single_pc = "none"

\* No call of the confidence score yet.
ConfidenceIdle ==
    /\ conf_rec = EmptyDict
    /\ conf_trends = <<>>
    /\ conf_opps = <<>>
    /\ conf_score = 0

\* No call of the action-plan sub-task yet.
PlansIdle ==
    /\ plan_opps = <<>>
    /\ plan_pc = "done"
    /\ plan_calls = <<>>
    /\ plan_outcomes = <<>>
    /\ action_plans = <<>>
    /\ plan_ret = <<>>

\* No detailed run yet.
PipelineIdle ==
    /\ news_key = TRUE
    /\ newsdata = TRUE
    /\ env = [sources |-> "rich", llm |-> "structured"]
    /\ pipe_pc = "idle"
    /\ pipe_ctx = EmptyDict
    /\ pipe_in = EmptyDict
    /\ pipe_ext = EmptyDict
    /\ pipe_results = [a \in AgentKeys |-> EmptyDict]
    /\ pipe_last = "none"
    /\ pipe_devs = 0
    /\ pipe_final = EmptyDict

RoadmapIdle ==
    /\ road_recs = <<>>
    /\ road_map = EmptyDict

FormatterIdle ==
    /\ fmt_now = 0
    /\ disk = EmptyDict
    /\ fmt_last = EmptyDict

HistoryIdle ==
    /\ hist_table = EmptyDict
    /\ hist_saved = EmptyDict
    /\ hist_load = EmptyDict

SearchIdle ==
    /\ cache_now = 0
    /\ search_cache = <<>>
    /\ search_pc = EmptyDict
    /\ search_step = EmptyDict
    /\ search_ret = EmptyDict

\* The callers of one agent's run on one orchestrator: the stage call of
\* run_intelligence_workflow and two run_single_agent calls.
RunCallers == {"workflow", "single_1", "single_2"}

OverlapIdle ==
    /\ ov_runs = [c \in RunCallers |-> "none"]
    /\ ov_status = "idle"
    /\ ov_progress = 0
    /\ ov_results = ""
    /\ ov_found = ""

\* Two run_intelligence_workflow calls on one orchestrator.
WorkflowCalls == {"first", "second"}

RunIdsIdle ==
    /\ id_now = 0
    /\ id_start = NoTime
    /\ id_pc = [c \in WorkflowCalls |-> "none"]
    /\ id_ids = [c \in WorkflowCalls |-> <<>>]
    /\ id_db = EmptyDict

FirecrawlIdle ==
    /\ fc_input = EmptyDict
    /\ fc_pc = "idle"
    /\ fc_log = <<>>
    /\ fc_slept = <<>>
    /\ fc_ret = <<>>
    /\ fc_web = <<>>

MoreIdle ==
    /\ RoadmapIdle
    /\ FormatterIdle
    /\ HistoryIdle
    /\ SearchIdle
    /\ OverlapIdle
    /\ RunIdsIdle
    /\ FirecrawlIdle

\* The state of the rest of the model while one of these specifications runs.
RoadAlone ==
    /\ InitOrchestrator
    /\ ConfidenceIdle
    /\ PlansIdle
    /\ PipelineIdle
    /\ FormatterIdle
    /\ HistoryIdle
    /\ SearchIdle
    /\ OverlapIdle
    /\ RunIdsIdle
    /\ FirecrawlIdle

FmtAlone ==
    /\ InitOrchestrator
    /\ ConfidenceIdle
    /\ PlansIdle
    /\ PipelineIdle
    /\ RoadmapIdle
    /\ HistoryIdle
    /\ SearchIdle
    /\ OverlapIdle
    /\ RunIdsIdle
    /\ FirecrawlIdle

HistAlone ==
    /\ InitOrchestrator
    /\ ConfidenceIdle
    /\ PlansIdle
    /\ PipelineIdle
    /\ RoadmapIdle
    /\ FormatterIdle
    /\ SearchIdle
    /\ OverlapIdle
    /\ RunIdsIdle
    /\ FirecrawlIdle

CacheAlone ==
    /\ InitOrchestrator
    /\ ConfidenceIdle
    /\ PlansIdle
    /\ PipelineIdle
    /\ RoadmapIdle
    /\ FormatterIdle
    /\ HistoryIdle
    /\ OverlapIdle
    /\ RunIdsIdle
    /\ FirecrawlIdle

OvAlone ==
    /\ InitOrchestrator
    /\ ConfidenceIdle
    /\ PlansIdle
    /\ PipelineIdle
    /\ RoadmapIdle
    /\ FormatterIdle
    /\ HistoryIdle
    /\ SearchIdle
    /\ RunIdsIdle
    /\ FirecrawlIdle

IdAlone ==
    /\ InitOrchestrator
    /\ ConfidenceIdle
    /\ PlansIdle
    /\ PipelineIdle
    /\ RoadmapIdle
    /\ FormatterIdle
    /\ HistoryIdle
    /\ SearchIdle
    /\ OverlapIdle
    /\ FirecrawlIdle

FcAlone ==
    /\ InitOrchestrator
    /\ ConfidenceIdle
    /\ PlansIdle
    /\ PipelineIdle
    /\ RoadmapIdle
    /\ FormatterIdle
    /\ HistoryIdle
    /\ SearchIdle
    /\ OverlapIdle
    /\ RunIdsIdle

Init ==
    /\ InitOrchestrator
    /\ ConfidenceIdle
    /\ PlansIdle
    /\ PipelineIdle
    /\ MoreIdle

\* ---------------------------------------------------------------- BaseAgent.run
\* Status run leaves behind, by the way execute ended.
RunStatus(kind) ==
    CASE kind = "ok" -> "completed"
      [] kind = "cancelled" -> "cancelled"
      [] kind = "error" -> "failed"

\* TRUE when run re-raises instead of returning.
RunRaises(kind) == kind = "cancelled"

\* The mapping run returns when it returns.
RunValue(a, exec) ==
    IF exec.kind = "ok" THEN exec.value
    ELSE [success |-> FALSE, error |-> "unhandled", agent |-> AgentName(a)]

\* What the caller of run observes: whether a cancellation was raised in a
\* sub-task, whether code outside the sub-tasks raised, the way execute ended,
\* and whether run returned a value or raised.
RunRecord(a, exec, outcome, value) ==
    [agent |-> a,
     cancel |-> \E k \in DOMAIN exec.plan : exec.plan[k] = "cancel",
     defect |-> exec.defect, exec |-> exec.kind,
     outcome |-> outcome, value |-> value]

\* Agent fields after run of agent a has ended with exec; when next is a stage,
\* run of next has been entered in the same step and is suspended in its gather.
AgentsAfter(a, exec, next) ==
    /\ agent_status' =
         [x \in AgentKeys |->
            IF x = next THEN "running"
            ELSE IF x = a THEN RunStatus(exec.kind) ELSE agent_status[x]]
    /\ agent_start' = [x \in AgentKeys |-> IF x = next THEN now ELSE agent_start[x]]
    /\ agent_end' = [agent_end EXCEPT ![a] = now]
    /\ agent_error' =
         [x \in AgentKeys |->
            IF x = next THEN "None"
            ELSE IF x = a /\ exec.kind = "error" THEN "unhandled"
            ELSE agent_error[x]]
    /\ agent_progress' =
         [x \in AgentKeys |->
            IF x = next THEN ClampProgress(GatherProgress(x))
            ELSE IF x = a /\ exec.kind = "ok" THEN 100 ELSE agent_progress[x]]
    /\ agent_task' =
         [x \in AgentKeys |->
            IF x = next THEN GatherTask(x)
            ELSE IF x = a /\ exec.kind = "ok" THEN DoneTask(x) ELSE agent_task[x]]
    /\ agent_results' =
         [x \in AgentKeys |->
            IF x = a /\ exec.kind = "ok" THEN exec.value ELSE agent_results[x]]

\* ---------------------------------------------------------------- history
\* f"workflow_{int(self.start_time.timestamp()) if self.start_time else 0}"
WorkflowId(st) == <<"workflow", IF st # NoTime THEN st \div TicksPerSec ELSE 0>>

\* MarketIntelligenceState(...) as _save_analysis_to_history builds it: the
\* field validators run, and a failing one raises.
BuildState(res) ==
    LET q == validate_query(Get(res, "query", <<>>))
        d == validate_market_domain(Get(res, "market_domain", <<>>))
    IN  [ok |-> q.ok /\ d.ok,
         state |->
           [state_id |-> Get(res, "state_id", Get(res, "workflow_id", <<"unknown">>)),
            query |-> q.value,
            market_domain |-> d.value,
            question |-> Get(res, "question", <<>>),
            report_dir |-> Get(res, "report_dir", <<>>),
            market_trends |-> Get(res, "market_trends", <<>>),
            opportunities |-> Get(res, "opportunities", <<>>),
            strategic_recommendations |-> Get(res, "strategic_recommendations", <<>>)]]

\* INSERT OR REPLACE INTO states ... keyed by state.state_id
save_state(table, state, t) ==
    Update(table,
           [i \in {state.state_id} |->
              [id |-> state.state_id, market_domain |-> state.market_domain,
               query |-> state.query, state_data |-> state, created_at |-> t]])

\* _save_analysis_to_history without its try/except: a record that cannot be
\* built, or a store that refuses the write, raises into the caller.
save_analysis_to_history_uncaught(res, accepts) ==
    IF ~BuildState(res).ok THEN [table |-> db, log |-> "invalid", raised |-> TRUE]
    ELSE IF ~accepts THEN [table |-> db, log |-> "db_error", raised |-> TRUE]
    ELSE [table |-> save_state(db, BuildState(res).state, now), log |-> "saved",
          raised |-> FALSE]

\* _save_analysis_to_history: every exception is caught and logged, so none
\* leaves it (raised). accepts says whether the sqlite store takes the write.
save_analysis_to_history(res, accepts) ==
    LET built == BuildState(res)
    IN  IF ~built.ok THEN [table |-> db, log |-> "invalid", raised |-> FALSE]
        ELSE IF ~accepts THEN [table |-> db, log |-> "db_error", raised |-> FALSE]
        ELSE [table |-> save_state(db, built.state, now), log |-> "saved",
              raised |-> FALSE]

\* ---------------------------------------------------------------- orchestrator
\* The success test left out: every returned result counts as a success.
Succeeded_unchecked(value) == TRUE

\* The test after every stage: "if not <stage>_results.get('success'): raise"
Succeeded(value) == Get(value, "success", FALSE) = TRUE

\* A reader that succeeded is run once more before the analyst.
NextStage_retry(a) == IF a = "reader" THEN a ELSE StageOrder[StageIndex(a) + 1]

NextStage(a) == StageOrder[StageIndex(a) + 1]

\* The except branch of run_intelligence_workflow.
FailureResult(msg) ==
    [success |-> FALSE,
     error |-> msg,
     workflow_id |-> WorkflowId(start_time),
     state_id |-> WorkflowId(start_time),
     query |-> request.query,
     market_domain |-> request.market_domain,
     question |-> request.question,
     failed_step |-> current_step,
     progress |-> progress]

\* final_results, from the locals reader_results .. formatter_results.
FinalResults(sr, t) ==
    [success |-> TRUE,
     workflow_id |-> WorkflowId(start_time),
     state_id |-> WorkflowId(start_time),
     query |-> request.query,
     market_domain |-> request.market_domain,
     question |-> request.question,
     start_time |-> start_time,
     end_time |-> t,
     duration |-> t - start_time,
     data_sources |-> Get(sr["reader"], "total_sources", 0),
     web_content |-> Get(sr["reader"], "web_content", <<>>),
     news_data |-> Get(sr["reader"], "news_data", <<>>),
     processed_data |-> Get(sr["reader"], "processed_data", "empty"),
     market_trends |-> Get(sr["analyst"], "market_trends", <<>>),
     opportunities |-> Get(sr["analyst"], "opportunities", <<>>),
     competitive_landscape |-> Get(sr["analyst"], "competitive_landscape", "empty"),
     key_metrics |-> Get(sr["analyst"], "key_metrics", "empty"),
     analysis_synthesis |-> Get(sr["analyst"], "analysis_synthesis", "empty"),
     strategic_recommendations |->
         Get(sr["strategist"], "strategic_recommendations", <<>>),
     action_plans |-> Get(sr["strategist"], "action_plans", <<>>),
     risk_assessment |-> Get(sr["strategist"], "risk_assessment", "empty"),
     success_metrics |-> Get(sr["strategist"], "success_metrics", "empty"),
     strategic_roadmap |-> Get(sr["strategist"], "strategic_roadmap", "empty"),
     report_dir |-> Get(sr["formatter"], "report_dir", <<>>),
     chart_files |-> Get(sr["formatter"], "chart_files", <<>>),
     report_content |-> Get(sr["formatter"], "report_content", "empty"),
     dashboard_data |-> Get(sr["formatter"], "dashboard_data", "empty"),
     export_files |-> Get(sr["formatter"], "export_files", "empty")]

\* run_intelligence_workflow, called on the orchestrator as constructed, from
\* its entry to the first suspension: the reader's run is entered and its
\* execute waits for its sub-tasks.
StartWorkflow(req) ==
    /\ call_pc = "idle"
    /\ cancel_pc = "idle"
    /\ faults' = 0
    /\ workflow_status' = "running"
    /\ start_time' = now
    /\ current_step' = StepLabel("reader")
    /\ progress' = Checkpoint("reader")
    /\ UNCHANGED <<end_time, results>>
    /\ request' = req
    /\ input_data' = req
    /\ stage_results' = [a \in AgentKeys |-> EmptyDict]
    /\ ret' = EmptyDict
    /\ call_pc' = "reader"
    /\ invoked' = <<"reader">>
    /\ passed' = <<req>>
    /\ last_run' = NoRun
    /\ save_log' = "none"
    /\ agent_status' = [agent_status EXCEPT !["reader"] = "running"]
    /\ agent_start' = [agent_start EXCEPT !["reader"] = now]
    /\ agent_progress' = [agent_progress EXCEPT !["reader"] = ClampProgress(GatherProgress("reader"))]
    /\ agent_error' = [agent_error EXCEPT !["reader"] = "None"]
    /\ agent_task' = [agent_task EXCEPT !["reader"] = GatherTask("reader")]
    /\ UNCHANGED <<agent_end, agent_results>>
    /\ snap' = NoSnap
    /\ UNCHANGED <<now, db, cancel_pc, cancel_pre, auxVars>>

\* The stage's run re-raised a cancellation: "except Exception" of the
\* orchestrator does not catch it and the call ends with the exception.
StageCancelled(a, exec) ==
    /\ AgentsAfter(a, exec, "")
    /\ last_run' = RunRecord(a, exec, "raise", EmptyDict)
    /\ call_pc' = "raised"
    /\ UNCHANGED <<orchVars, input_data, stage_results, request, ret, invoked,
                   passed, save_log, db>>

\* The stage's run returned a falsy success: the orchestrator raises, and its
\* except branch turns this into a failure result.
StageFailed(a, exec) ==
    LET value == RunValue(a, exec)
    IN  /\ AgentsAfter(a, exec, "")
        /\ last_run' = RunRecord(a, exec, "return", value)
        /\ stage_results' = [stage_results EXCEPT ![a] = value]
        /\ workflow_status' = "failed"
        /\ end_time' = now
        /\ ret' = FailureResult(<<AgentName(a), "failed", Get(value, "error", "None")>>)
        /\ call_pc' = "returned"
        /\ UNCHANGED <<current_step, progress, start_time, results, input_data,
                       request, invoked, passed, save_log, db>>

\* The stage's run returned success and another stage follows: merge, move the
\* checkpoint, enter the next stage's run.
StageAdvance(a, exec) ==
    LET value == RunValue(a, exec)
        merged == Update(input_data, value)
        nxt == NextStage(a)
    IN  /\ AgentsAfter(a, exec, nxt)
        /\ last_run' = RunRecord(a, exec, "return", value)
        /\ stage_results' = [stage_results EXCEPT ![a] = value]
        /\ input_data' = merged
        /\ current_step' = StepLabel(nxt)
        /\ progress' = Checkpoint(nxt)
        /\ call_pc' = nxt
        /\ invoked' = Append(invoked, nxt)
        /\ passed' = Append(passed, merged)
        /\ UNCHANGED <<workflow_status, start_time, end_time, results, request,
                       ret, save_log, db>>

\* The formatter's run returned success: compile the final results, save them
\* to the history, return them.
WorkflowComplete(a, exec, accepts) ==
    LET value == RunValue(a, exec)
        sr == [stage_results EXCEPT ![a] = value]
        final == FinalResults(sr, now)
        saved == save_analysis_to_history(final, accepts)
    IN  /\ AgentsAfter(a, exec, "")
        /\ last_run' = RunRecord(a, exec, "return", value)
        /\ stage_results' = sr
        /\ progress' = 100
        /\ current_step' = "Completed"
        /\ end_time' = now
        /\ results' = final
        /\ db' = saved.table
        /\ save_log' = saved.log
        /\ IF saved.raised
           THEN \* an exception leaving the save reaches the except branch
                /\ workflow_status' = "failed"
                /\ ret' = [FailureResult(<<"history">>) EXCEPT
                             !.failed_step = "Completed", !.progress = 100]
           ELSE /\ workflow_status' = "completed"
                /\ ret' = final
        /\ call_pc' = "returned"
        /\ UNCHANGED <<start_time, input_data, request, invoked, passed>>

\* A stage's execute ends and run_intelligence_workflow runs on to its next
\* suspension or to its end.
StageReturn(a) ==
    /\ call_pc = a
    /\ cancel_pc = "idle"
    /\ \E defect \in BOOLEAN,
          accepts \in (IF a = "formatter" THEN BOOLEAN ELSE {TRUE}) :
       \E plan \in FaultPlans(a, MaxFaults - faults - DefectCount(defect)) :
         LET exec == execute(a, plan, defect, now)
         IN  /\ faults' = faults + FaultCount(a, plan) + DefectCount(defect)
             /\ IF RunRaises(exec.kind) THEN StageCancelled(a, exec)
                ELSE IF ~Succeeded(RunValue(a, exec))
                THEN StageFailed(a, exec)
                ELSE IF a = "formatter" THEN WorkflowComplete(a, exec, accepts)
                ELSE StageAdvance(a, exec)
    /\ snap' = NoSnap
    /\ UNCHANGED <<now, cancel_pc, cancel_pre, auxVars>>

\* ---------------------------------------------------------------- status
\* "duration": None without a start time, else (end_time or now) - start_time
Duration(st, en, t) ==
    IF st = NoTime THEN <<>>
    ELSE <<(IF en # NoTime THEN en ELSE t) - st>>

\* BaseAgent.get_status
get_status(a, t) ==
    [name |-> AgentName(a),
     description |-> AgentDescription(a),
     status |-> agent_status[a],
     progress |-> agent_progress[a],
     current_task |-> agent_task[a],
     start_time |-> agent_start[a],
     end_time |-> agent_end[a],
     duration |-> Duration(agent_start[a], agent_end[a], t),
     error_message |-> agent_error[a]]

\* The mapping get_workflow_status returns at time t.
WorkflowStatus(t) ==
    [taken |-> TRUE,
     workflow_status |-> workflow_status,
     current_step |-> current_step,
     progress |-> progress,
     start_time |-> start_time,
     end_time |-> end_time,
     duration |-> Duration(start_time, end_time, t),
     agent_statuses |-> [a \in AgentKeys |-> get_status(a, t)]]

\* get_workflow_status: the caller keeps the returned snapshot.
get_workflow_status ==
    /\ cancel_pc = "idle"
    /\ snap' = WorkflowStatus(now)
    /\ UNCHANGED <<now, faults, orchVars, agentVars, callVars, db, cancel_pc,
                   cancel_pre, auxVars>>

\* ---------------------------------------------------------------- cancel
\* cancel_workflow has no suspension point: between its first assignment and
\* its last no other coroutine runs.
\* Every agent marked cancelled, whatever its status.
CancelledStatus_all(st) == "cancelled"

\* "if agent.status == AgentStatus.RUNNING: agent.status = CANCELLED"
CancelledStatus(st) == IF st = "running" THEN "cancelled" ELSE st

cancel_workflow_begin ==
    /\ cancel_pc = "idle"
    /\ cancel_pc' = "cancelling"
    /\ cancel_pre' = agent_status
    /\ workflow_status' = "cancelling"
    /\ snap' = NoSnap
    /\ UNCHANGED <<now, faults, current_step, progress, start_time, end_time,
                   results, agentVars, callVars, db, auxVars>>

cancel_workflow_finish ==
    /\ cancel_pc = "cancelling"
    /\ cancel_pc' = "idle"
    /\ agent_status' = [a \in AgentKeys |-> CancelledStatus(agent_status[a])]
    /\ workflow_status' = "cancelled"
    /\ end_time' = now
    /\ snap' = NoSnap
    /\ UNCHANGED <<now, faults, current_step, progress, start_time, results,
                   agent_start, agent_end, agent_error, agent_progress,
                   agent_task, agent_results, callVars, db, auxVars>>
    /\ cancel_pre' = [a \in AgentKeys |-> "idle"]

\* ---------------------------------------------------------------- clock
Tick ==
    /\ now < MaxTime
    /\ now' = now + 1
    /\ UNCHANGED <<faults, orchVars, agentVars, callVars, db, cancel_pc,
                   cancel_pre, snap, auxVars>>

Next ==
    \/ \E req \in Requests : StartWorkflow(req)
    \/ \E a \in AgentKeys : StageReturn(a)
    \/ get_workflow_status
    \/ cancel_workflow_begin
    \/ cancel_workflow_finish
    \/ Tick

Spec == Init /\ [][Next]_vars

\* ---------------------------------------------------------------- run_single_agent
\* run_single_agent(agent_name, input_data), called again and again for one
\* agent of an orchestrator that runs no workflow: from its entry to the
\* suspension of the agent's execute in its gather.
run_single_agent_begin(a) ==
    /\ single_pc = "none"
    /\ call_pc = "idle"
    /\ \A x \in AgentKeys \ {a} : agent_status[x] = "idle"
    /\ single_pc' = a
    /\ UNCHANGED fnVars
    /\ faults' = 0
    /\ agent_status' = [agent_status EXCEPT ![a] = "running"]
    /\ agent_start' = [agent_start EXCEPT ![a] = now]
    /\ agent_progress' = [agent_progress EXCEPT ![a] = ClampProgress(GatherProgress(a))]
    /\ agent_error' = [agent_error EXCEPT ![a] = "None"]
    /\ agent_task' = [agent_task EXCEPT ![a] = GatherTask(a)]
    /\ ret' = EmptyDict
    /\ UNCHANGED <<agent_end, agent_results>>
    /\ UNCHANGED <<now, orchVars, call_pc, input_data, stage_results, request,
                   invoked, passed, last_run, save_log, db, cancel_pc, cancel_pre,
                   snap>>

\* The agent's execute ends: run returns (run_single_agent returns its result)
\* or re-raises a cancellation (run_single_agent's "except Exception" lets it
\* pass).
run_single_agent_end(a) ==
    /\ single_pc = a
    /\ \E defect \in BOOLEAN :
       \E plan \in FaultPlans(a, MaxFaults - DefectCount(defect)) :
         LET exec == execute(a, plan, defect, now)
         IN  /\ AgentsAfter(a, exec, "")
             /\ faults' = FaultCount(a, plan) + DefectCount(defect)
             /\ IF RunRaises(exec.kind)
                THEN /\ last_run' = RunRecord(a, exec, "raise", EmptyDict)
                     /\ ret' = EmptyDict
                ELSE /\ last_run' = RunRecord(a, exec, "return", RunValue(a, exec))
                     /\ ret' = RunValue(a, exec)
    /\ single_pc' = "none"
    /\ UNCHANGED fnVars
    /\ UNCHANGED <<now, orchVars, call_pc, input_data, stage_results, request,
                   invoked, passed, save_log, db, cancel_pc, cancel_pre, snap>>

NextRerun ==
    \/ \E a \in AgentKeys : run_single_agent_begin(a)
    \/ \E a \in AgentKeys : run_single_agent_end(a)
    \/ Tick

SpecRerun == Init /\ [][NextRerun]_vars

\* ---------------------------------------------------------------- confidence
\* str.lower() on the letters used here
LowerChar(c) ==
    CASE c = "A" -> "a" [] c = "I" -> "i" [] c = "U" -> "u" [] c = "N" -> "n"
      [] OTHER -> c

Lower(s) == [i \in 1..Len(s) |-> LowerChar(s[i])]

\* str.split(): the maximal runs of non-whitespace characters
RECURSIVE SplitWords(_, _)
SplitWords(s, word) ==
    IF s = <<>> THEN (IF word = <<>> THEN <<>> ELSE <<word>>)
    ELSE IF Head(s) \in Whitespace
    THEN (IF word = <<>> THEN <<>> ELSE <<word>>) \o SplitWords(Tail(s), <<>>)
    ELSE SplitWords(Tail(s), Append(word, Head(s)))

Split(s) == SplitWords(s, <<>>)

\* "keyword in text" of two strings
Contains(text, keyword) ==
    \E i \in 1..(Len(text) - Len(keyword) + 1) :
        SubSeq(text, i, i + Len(keyword) - 1) = keyword

\* description.lower().split()[:5]
Keywords(description) ==
    LET words == Split(Lower(description))
    IN  SubSeq(words, 1, IF Len(words) < KeywordLimit THEN Len(words) ELSE KeywordLimit)

\* any(keyword in recommendation.get("description", "").lower() for keyword in ...)
Aligned(recommendation, item) ==
    \E j \in 1..Len(Keywords(Get(item, "description", <<>>))) :
        Contains(Lower(Get(recommendation, "description", <<>>)),
                 Keywords(Get(item, "description", <<>>))[j])

HighPotential(opp) == Get(opp, "revenue_potential", NoneVal) = <<"High">>

trend_alignment(recommendation, trends) ==
    Cardinality({i \in 1..Len(trends) : Aligned(recommendation, trends[i])})

opportunity_alignment(recommendation, opportunities) ==
    Cardinality({i \in 1..Len(opportunities) :
                    HighPotential(opportunities[i])
                    /\ Aligned(recommendation, opportunities[i])})

\* The computation raises (None has no lower()): a description that is None
\* where it is lowered. The recommendation's is lowered once per keyword.
ConfidenceRaises(recommendation, trends, opportunities) ==
    LET lowered == {trends[i] : i \in 1..Len(trends)} \cup
                   {opportunities[i] : i \in {j \in 1..Len(opportunities) :
                                                 HighPotential(opportunities[j])}}
    IN  \/ \E x \in lowered : Get(x, "description", <<>>) = NoneVal
        \/ /\ Get(recommendation, "description", <<>>) = NoneVal
           /\ \E x \in lowered : Keywords(Get(x, "description", <<>>)) # <<>>

Min(x, y) == IF x < y THEN x ELSE y

\* The boost not capped and the sum not clamped.
calculate_recommendation_confidence_unclamped(recommendation, trends, opportunities) ==
    IF ConfidenceRaises(recommendation, trends, opportunities)
    THEN FallbackConfidence
    ELSE BaseConfidence +
         (trend_alignment(recommendation, trends)
          + opportunity_alignment(recommendation, opportunities)) * BoostPerMatch

\* _calculate_recommendation_confidence, in hundredths
calculate_recommendation_confidence(recommendation, trends, opportunities) ==
    IF ConfidenceRaises(recommendation, trends, opportunities)
    THEN FallbackConfidence
    ELSE Min(MaxConfidence,
             BaseConfidence +
             Min(MaxBoost,
                 (trend_alignment(recommendation, trends)
                  + opportunity_alignment(recommendation, opportunities))
                 * BoostPerMatch))

\* Arguments: a recommendation about "Use AI", one whose description is None,
\* one without a description; trends and opportunities whose first keywords do
\* or do not occur in it.
TextUseAI == <<"U", "s", "e", " ", "A", "I">>
TextAINow == <<"A", "I", " ", "n", "o", "w">>
TextSixthWord == <<"n", " ", "n", " ", "n", " ", "N", " ", "n", " ", "a", "i">>

Recommendations ==
    { [description |-> TextUseAI], [description |-> NoneVal], EmptyDict }

TrendItems ==
    { [description |-> TextAINow], [description |-> TextSixthWord],
      [description |-> NoneVal] }

OpportunityItems ==
    { [description |-> TextAINow, revenue_potential |-> <<"High">>],
      [description |-> TextAINow, revenue_potential |-> <<"Low">>] }

InitConfidence ==
    /\ InitOrchestrator
    /\ conf_rec \in Recommendations
    /\ conf_trends = <<>>
    /\ conf_opps = <<>>
    /\ conf_score = calculate_recommendation_confidence(conf_rec, <<>>, <<>>)
    /\ PlansIdle
    /\ PipelineIdle
    /\ MoreIdle

orchAll == <<now, faults, orchVars, agentVars, callVars, db, cancel_pc, cancel_pre, snap,
             single_pc>>

\* What the actions of one of these specifications leave alone.
othersRoad == <<orchAll, confVars, planVars, pipeVars, fmtVars, histVars, cacheVars, ovVars, idVars, fcVars>>

othersFmt == <<orchAll, confVars, planVars, pipeVars, roadVars, histVars, cacheVars, ovVars, idVars, fcVars>>

othersHist == <<orchAll, confVars, planVars, pipeVars, roadVars, fmtVars, cacheVars, ovVars, idVars, fcVars>>

othersCache == <<orchAll, confVars, planVars, pipeVars, roadVars, fmtVars, histVars, ovVars, idVars, fcVars>>

othersOv == <<orchAll, confVars, planVars, pipeVars, roadVars, fmtVars, histVars, cacheVars, idVars, fcVars>>

othersId == <<orchAll, confVars, planVars, pipeVars, roadVars, fmtVars, histVars, cacheVars, ovVars, fcVars>>

othersFc == <<orchAll, confVars, planVars, pipeVars, roadVars, fmtVars, histVars, cacheVars, ovVars, idVars>>

\* The score of the same recommendation against one more trend.
AddTrend(t) ==
    /\ Len(conf_trends) < MaxTrends
    /\ conf_trends' = Append(conf_trends, t)
    /\ conf_score' = calculate_recommendation_confidence(conf_rec, conf_trends', conf_opps)
    /\ UNCHANGED <<conf_rec, conf_opps, orchAll, planVars, pipeVars, moreVars>>

\* The score of the same recommendation against one more opportunity.
AddOpportunity(o) ==
    /\ Len(conf_opps) < MaxOpps
    /\ conf_opps' = Append(conf_opps, o)
    /\ conf_score' = calculate_recommendation_confidence(conf_rec, conf_trends, conf_opps')
    /\ UNCHANGED <<conf_rec, conf_trends, orchAll, planVars, pipeVars, moreVars>>

NextConfidence ==
    \/ \E t \in TrendItems : AddTrend(t)
    \/ \E o \in OpportunityItems : AddOpportunity(o)

SpecConfidence == InitConfidence /\ [][NextConfidence]_vars

\* ---------------------------------------------------------------- action plans
OpportunityNames == {"a", "b"}
PlanOutcomes == {"dict", "notdict", "raise"}

\* The whole list instead of its first three.
top_opportunities_all(opportunities) == opportunities

\* top_opportunities = opportunities[:3]
top_opportunities(opportunities) ==
    SubSeq(opportunities, 1, Min(TopOpportunities, Len(opportunities)))

\* The mapping the LLM returns for the call-th invocation, about opportunity o.
PlanFor(o, call) == [opportunity_name |-> o, call |-> call]

InitPlans ==
    /\ InitOrchestrator
    /\ ConfidenceIdle
    /\ plan_opps \in UNION { [1..n -> OpportunityNames] : n \in 0..MaxOpportunities }
    /\ plan_pc = "loop"
    /\ plan_calls = <<>>
    /\ plan_outcomes = <<>>
    /\ action_plans = <<>>
    /\ plan_ret = <<>>
    /\ PipelineIdle
    /\ MoreIdle

\* One pass of the loop: chain.invoke(prompt) for the next of the top
\* opportunities. A mapping is appended, anything else is skipped, a raise
\* leaves the loop for the except branch, which returns [].
PlanInvoke(outcome) ==
    /\ plan_pc = "loop"
    /\ Len(plan_calls) < Len(top_opportunities(plan_opps))
    /\ LET i == Len(plan_calls) + 1
           o == top_opportunities(plan_opps)[i]
       IN  /\ plan_calls' = Append(plan_calls, o)
           /\ plan_outcomes' = Append(plan_outcomes, outcome)
           /\ CASE outcome = "dict" ->
                     /\ action_plans' = Append(action_plans, PlanFor(o, i))
                     /\ UNCHANGED <<plan_pc, plan_ret>>
                [] outcome = "notdict" ->
                     UNCHANGED <<action_plans, plan_pc, plan_ret>>
                [] outcome = "raise" ->
                     /\ plan_pc' = "done"
                     /\ plan_ret' = <<>>
                     /\ UNCHANGED action_plans
    /\ UNCHANGED <<plan_opps, orchAll, confVars, pipeVars, moreVars>>

\* The loop is through: return action_plans.
PlanReturn ==
    /\ plan_pc = "loop"
    /\ Len(plan_calls) = Len(top_opportunities(plan_opps))
    /\ plan_pc' = "done"
    /\ plan_ret' = action_plans
    /\ UNCHANGED <<plan_opps, plan_calls, plan_outcomes, action_plans, orchAll, confVars,
                   pipeVars, moreVars>>

NextPlans ==
    \/ \E outcome \in PlanOutcomes : PlanInvoke(outcome)
    \/ PlanReturn

SpecPlans == InitPlans /\ [][NextPlans]_vars

\* ---------------------------------------------------------------- the stages in detail
\* What the collaborators of one run do unless a single call deviates: the
\* sources return nothing (None), thin content (at or below the length
\* thresholds) or rich content; the LLM returns the structure asked for or
\* None.
SourceModes == {"none", "thin", "rich"}
LLMModes == {"structured", "none"}

\* Outcomes of one external call.
SourceOutcomes == {"none", "thin", "rich", "raise"}
LLMOutcomes == {"ok", "wrong", "raise"}
LocalOutcomes == {"ok", "raise"}

SourceCalls == {"firecrawl", "news", "trending"}
LLMCalls ==
    {"reader_llm", "trends_llm", "opps_llm", "landscape_llm", "synthesis_llm",
     "recs_llm", "plans_llm", "risk_llm", "metrics_llm"}
LocalCalls == {"key_metrics", "charts", "report", "dashboard", "export"}

OutcomesOf(c) ==
    IF c \in SourceCalls THEN SourceOutcomes
    ELSE IF c \in LLMCalls THEN LLMOutcomes
    ELSE LocalOutcomes

\* The outcome of call c when it does not deviate.
Baseline(c, e) ==
    IF c \in SourceCalls THEN e.sources
    ELSE IF c \in LLMCalls THEN (IF e.llm = "structured" THEN "ok" ELSE "wrong")
    ELSE "ok"

\* ReaderAgent.__init__: the NewsData client exists iff the key is configured
\* and the client's constructor did not raise.
reader_init(key, constructed) == key /\ constructed

\* search_and_scrape results: contents by their length.
WebResults(outcome) ==
    CASE outcome = "thin" -> << [title |-> "w1", content |-> WebMinLen] >>
      [] outcome = "rich" ->
           << [title |-> "w1", content |-> WebMinLen + 1],
              [title |-> "w2", content |-> WebMinLen],
              [title |-> "w3", content |-> 0] >>

RECURSIVE FilterWeb(_)
FilterWeb(raw) ==
    IF raw = <<>> THEN <<>>
    ELSE (IF Head(raw).content > 0 /\ Head(raw).content > WebMinLen
          THEN << [source |-> "web_scraping", title |-> Head(raw).title,
                   content |-> Head(raw).content, description |-> 0] >>
          ELSE <<>>) \o FilterWeb(Tail(raw))

\* _collect_web_content: iterating over None raises inside the try.
collect_web_content(outcome) ==
    IF outcome \in {"raise", "none"} THEN <<>> ELSE FilterWeb(WebResults(outcome))

\* get_latest_news results: title present or not, description and content by
\* their stripped length.
NewsResults(outcome) ==
    CASE outcome = "thin" ->
           << [title |-> "n1", description |-> ContentMinLen, content |-> 0],
              [title |-> "", description |-> 0, content |-> ContentMinLen + 1] >>
      [] outcome = "rich" ->
           << [title |-> "n1", description |-> ContentMinLen + 1, content |-> 0],
              [title |-> "", description |-> 0, content |-> ContentMinLen + 1],
              [title |-> "n3", description |-> 0, content |-> 0] >>

RECURSIVE ProcessArticles(_)
ProcessArticles(raw) ==
    IF raw = <<>> THEN <<>>
    ELSE (IF Head(raw).title = "" /\ Head(raw).description = 0
          THEN <<>>
          ELSE << [source |-> "newsdata_io", title |-> Head(raw).title,
                   content |-> IF Head(raw).content > 0 THEN Head(raw).content
                               ELSE Head(raw).description,
                   description |-> Head(raw).description] >>)
         \o ProcessArticles(Tail(raw))

\* _collect_news_data: every attempt returning None ends in iterating over None.
collect_news_data(outcome) ==
    IF outcome \in {"raise", "none"} THEN <<>> ELSE ProcessArticles(NewsResults(outcome))

\* _collect_trending_topics returns what the client returned, None included.
collect_trending_topics(outcome) ==
    CASE outcome = "raise" -> <<>>
      [] outcome = "none" -> NoneVal
      [] OTHER -> <<"topic">>

\* The mapping the LLM's JSON parses to.
ParsedJSON ==
    [key_themes |-> <<"theme">>, market_signals |-> <<"signal">>,
     data_quality_score |-> 9]

\* processed = {...} of the inner "except:" (json.loads failed)
UnparsedStructure ==
    [key_themes |-> <<"Data processing", "Market analysis">>,
     market_signals |-> <<"Emerging trends identified">>,
     data_quality_score |-> UnparsedQuality]

\* the return of the outer "except Exception"
DefaultStructure ==
    [key_themes |-> <<>>, market_signals |-> <<>>,
     data_quality_score |-> DefaultQuality]

\* _process_collected_data
process_collected_data(outcome) ==
    CASE outcome = "ok" -> ParsedJSON
      [] outcome = "wrong" -> UnparsedStructure
      [] outcome = "raise" -> DefaultStructure

\* The news and trending collections invoked whether or not there is a client.
ReaderCalls_always(client) == {"firecrawl", "news", "trending", "reader_llm"}

\* The external calls ReaderAgent.execute makes.
ReaderCalls(client) ==
    {"firecrawl", "reader_llm"} \cup (IF client THEN {"news", "trending"} ELSE {})

\* ReaderAgent.execute under the outcomes ext of the calls it makes.
reader_execute(ext) ==
    LET web_content == collect_web_content(ext["firecrawl"])
        news_data == IF "news" \in DOMAIN ext
                     THEN collect_news_data(ext["news"]) ELSE <<>>
        trending_topics == IF "trending" \in DOMAIN ext
                           THEN collect_trending_topics(ext["trending"]) ELSE <<>>
    IN  [success |-> TRUE,
         web_content |-> web_content,
         news_data |-> news_data,
         trending_topics |-> trending_topics,
         processed_data |-> process_collected_data(ext["reader_llm"]),
         total_sources |-> Len(web_content) + Len(news_data)]

\* content = item.get("content", "") or item.get("description", ""), by length
ItemContent(item) == IF item.content > 0 THEN item.content ELSE item.description

\* if content and len(content.strip()) > 50
Substantial(item) == ItemContent(item) > 0 /\ ItemContent(item) > ContentMinLen

\* trend_content, opportunity_content
SubstantialContent(web_content, news_data) ==
    SelectSeq(web_content \o news_data, Substantial)

FallbackNote == "Fallback data - limited external sources available"

\* _get_fallback_trends
get_fallback_trends ==
    << [trend_name |-> "Digital Transformation", impact_level |-> "High",
        timeframe |-> "Medium-term", data_sources |-> 0, note |-> FallbackNote],
       [trend_name |-> "Sustainability Focus", impact_level |-> "Medium",
        timeframe |-> "Long-term", data_sources |-> 0, note |-> FallbackNote] >>

\* The array of trends the LLM returns, with the metadata the sub-task adds.
LLMTrends(sources) ==
    << [trend_name |-> "t1", impact_level |-> "High", timeframe |-> "Short-term",
        data_sources |-> sources] >>

\* _analyze_market_trends
analyze_market_trends(web_content, news_data, outcome) ==
    IF SubstantialContent(web_content, news_data) = <<>>
    THEN get_fallback_trends
    ELSE CASE outcome = "ok" -> LLMTrends(Len(web_content) + Len(news_data))
           [] outcome = "wrong" -> <<>>
           [] outcome = "raise" -> get_fallback_trends

\* _get_fallback_opportunities
get_fallback_opportunities ==
    << [opportunity_name |-> "AI-Powered Solutions", revenue_potential |-> "High",
        risk_level |-> "Medium", note |-> FallbackNote],
       [opportunity_name |-> "Digital Platform", revenue_potential |-> "Medium",
        risk_level |-> "High", note |-> FallbackNote] >>

\* The array of opportunities the LLM returns.
LLMOpportunities ==
    << [opportunity_name |-> "o1", revenue_potential |-> "High", risk_level |-> "Low"],
       [opportunity_name |-> "o2", revenue_potential |-> "Medium", risk_level |-> "Low"],
       [opportunity_name |-> "o3", revenue_potential |-> "Low", risk_level |-> "High"],
       [opportunity_name |-> "o4", revenue_potential |-> "High", risk_level |-> "High"] >>

\* The opportunities of an input without content not flagged.
identify_opportunities_unflagged(web_content, news_data, outcome) ==
    IF SubstantialContent(web_content, news_data) = <<>>
    THEN << [opportunity_name |-> "AI-Powered Solutions", revenue_potential |-> "High",
             risk_level |-> "Medium"] >>
    ELSE CASE outcome = "ok" -> LLMOpportunities
           [] outcome = "wrong" -> <<>>
           [] outcome = "raise" -> get_fallback_opportunities

\* _identify_opportunities
identify_opportunities(web_content, news_data, outcome) ==
    IF SubstantialContent(web_content, news_data) = <<>>
    THEN get_fallback_opportunities
    ELSE CASE outcome = "ok" -> LLMOpportunities
           [] outcome = "wrong" -> <<>>
           [] outcome = "raise" -> get_fallback_opportunities

\* the return of _analyze_competitive_landscape's except branch
DefaultLandscape ==
    [market_leaders |-> <<>>, emerging_players |-> <<>>,
     market_concentration |-> "Medium",
     barriers_to_entry |-> <<"Capital requirements", "Regulatory compliance">>,
     competitive_intensity |-> "Medium"]

LLMLandscape ==
    [market_leaders |-> <<"leader">>, emerging_players |-> <<"player">>,
     market_concentration |-> "High", barriers_to_entry |-> <<"barrier">>,
     competitive_intensity |-> "High"]

\* _analyze_competitive_landscape
analyze_competitive_landscape(outcome) ==
    CASE outcome = "ok" -> LLMLandscape
      [] outcome = "wrong" -> EmptyDict
      [] outcome = "raise" -> DefaultLandscape

\* _extract_key_metrics, analysis_confidence in hundredths. It makes no
\* external call; its except branch needs a processed_data that is not a
\* mapping or a score that is not a number.
extract_key_metrics(web_content, news_data, processed_data) ==
    LET total_sources == Len(web_content) + Len(news_data)
        data_quality_score == Get(processed_data, "data_quality_score", MetricsQuality)
    IN  [data_sources_count |-> total_sources,
         web_sources |-> Len(web_content),
         news_sources |-> Len(news_data),
         data_quality_score |-> data_quality_score,
         coverage_completeness |-> Min(100, total_sources * 5),
         analysis_confidence |-> data_quality_score * 10]

\* _synthesize_analysis: the response's text (str(None) for a None response),
\* or the templated summary built from the counts.
synthesize_analysis(trends, opportunities, metrics, outcome) ==
    CASE outcome = "ok" ->
           [executive_summary |-> <<"synthesis">>,
            confidence_level |-> Get(metrics, "analysis_confidence", 70)]
      [] outcome = "wrong" ->
           [executive_summary |-> <<"None">>,
            confidence_level |-> Get(metrics, "analysis_confidence", 70)]
      [] outcome = "raise" ->
           [executive_summary |->
                <<"Analysis completed", Len(trends), Len(opportunities)>>,
            confidence_level |-> 70]

\* The LLM calls AnalystAgent.execute makes for this context.
AnalystCalls(ctx) ==
    (IF SubstantialContent(Get(ctx, "web_content", <<>>), Get(ctx, "news_data", <<>>)) = <<>>
     THEN {} ELSE {"trends_llm", "opps_llm"})
    \cup {"landscape_llm", "synthesis_llm"}

ExtOf(ext, c) == IF c \in DOMAIN ext THEN ext[c] ELSE "ok"

\* AnalystAgent.execute
analyst_execute(ctx, ext) ==
    LET web_content == Get(ctx, "web_content", <<>>)
        news_data == Get(ctx, "news_data", <<>>)
        processed_data == Get(ctx, "processed_data", EmptyDict)
        trends == analyze_market_trends(web_content, news_data, ExtOf(ext, "trends_llm"))
        opportunities ==
            identify_opportunities(web_content, news_data, ExtOf(ext, "opps_llm"))
        metrics == extract_key_metrics(web_content, news_data, processed_data)
    IN  [success |-> TRUE,
         market_trends |-> trends,
         opportunities |-> opportunities,
         competitive_landscape |-> analyze_competitive_landscape(ext["landscape_llm"]),
         key_metrics |-> metrics,
         analysis_synthesis |->
             synthesize_analysis(trends, opportunities, metrics, ext["synthesis_llm"])]

\* The array of recommendations the LLM returns (the confidence_score the
\* sub-task adds to each is the subject of the confidence section).
LLMRecommendations ==
    << [strategy_title |-> "r1", priority_level |-> "High",
        implementation_timeline |-> "Short-term"],
       [strategy_title |-> "r2", priority_level |-> "Medium",
        implementation_timeline |-> "Long-term"] >>

\* the return of _generate_strategic_recommendations' except branch
DefaultRecommendations ==
    << [strategy_title |-> "Market Entry Strategy", priority_level |-> "High",
        implementation_timeline |-> "Medium-term"] >>

\* _generate_strategic_recommendations
generate_strategic_recommendations(outcome) ==
    CASE outcome = "ok" -> LLMRecommendations
      [] outcome = "wrong" -> <<>>
      [] outcome = "raise" -> DefaultRecommendations

\* _create_action_plans when every invocation of the LLM ends the same way.
create_action_plans(opportunities, outcome) ==
    LET top == top_opportunities(opportunities)
    IN  IF outcome = "ok"
        THEN [i \in 1..Len(top) |-> PlanFor(top[i].opportunity_name, i)]
        ELSE <<>>

DefaultRisk ==
    [market_risks |-> <<>>, competitive_risks |-> <<>>, operational_risks |-> <<>>,
     overall_risk_level |-> "Medium"]

LLMRisk ==
    [market_risks |-> <<"risk">>, competitive_risks |-> <<>>, operational_risks |-> <<>>,
     overall_risk_level |-> "High"]

\* The empty mapping instead of the default risk assessment.
assess_risks_and_mitigation_empty(outcome) ==
    IF outcome = "ok" THEN LLMRisk ELSE EmptyDict

\* _assess_risks_and_mitigation
assess_risks_and_mitigation(outcome) ==
    CASE outcome = "ok" -> LLMRisk
      [] outcome = "wrong" -> EmptyDict
      [] outcome = "raise" -> DefaultRisk

DefaultSuccessMetrics ==
    [financial_metrics |-> <<>>, market_metrics |-> <<>>,
     dashboard_recommendations |-> "Standard business metrics dashboard recommended"]

LLMSuccessMetrics ==
    [financial_metrics |-> <<"metric">>, market_metrics |-> <<>>,
     dashboard_recommendations |-> "dashboards"]

\* _develop_success_metrics
develop_success_metrics(outcome) ==
    CASE outcome = "ok" -> LLMSuccessMetrics
      [] outcome = "wrong" -> EmptyDict
      [] outcome = "raise" -> DefaultSuccessMetrics

\* [r for r in recommendations if r.get("priority_level") == level]
WithPriority(recommendations, level) ==
    SelectSeq(recommendations, LAMBDA r : Get(r, "priority_level", "") = level)

\* [r for r in recommendations if r.get("implementation_timeline") == bucket]
WithTimeline(recommendations, bucket) ==
    SelectSeq(recommendations, LAMBDA r : Get(r, "implementation_timeline", "") = bucket)

\* rec.get("implementation_steps", [{}])[0].get("dependencies", []) raises:
\* the field is there and is no list (None) or is the empty list.
StepsRaise(rec) ==
    /\ "implementation_steps" \in DOMAIN rec
    /\ \/ rec.implementation_steps.type # "list"
       \/ rec.implementation_steps.value = <<>>

\* _create_implementation_sequence: one bare except around the whole loop
create_implementation_sequence(recommendations) ==
    IF \E i \in 1..Len(recommendations) : StepsRaise(recommendations[i])
    THEN <<>>
    ELSE [i \in 1..Len(recommendations) |->
            [sequence_number |-> i,
             strategy_title |-> Get(recommendations[i], "strategy_title", ""),
             priority_level |-> Get(recommendations[i], "priority_level", "Medium"),
             dependencies |->
                 IF "implementation_steps" \in DOMAIN recommendations[i]
                 THEN Get(recommendations[i].implementation_steps.value[1],
                          "dependencies", <<>>)
                 ELSE <<>>,
             estimated_duration |->
                 Get(recommendations[i], "implementation_timeline", "Medium-term")]]

\* _create_strategic_roadmap: assembled from the four results, no external call
create_strategic_roadmap(recommendations, plans, risk_assessment, success_metrics) ==
    [executive_summary |-> <<"Strategic roadmap", Len(recommendations)>>,
     strategic_priorities |->
         [high_priority |-> WithPriority(recommendations, "High"),
          medium_priority |-> WithPriority(recommendations, "Medium"),
          low_priority |-> WithPriority(recommendations, "Low")],
     timeline_view |->
         [short_term |-> WithTimeline(recommendations, "Short-term"),
          medium_term |-> WithTimeline(recommendations, "Medium-term"),
          long_term |-> WithTimeline(recommendations, "Long-term")],
     implementation_sequence |-> create_implementation_sequence(recommendations),
     milestones |-> Len(plans),
     success_tracking |-> success_metrics,
     risk_monitoring |-> risk_assessment]

\* The LLM calls StrategistAgent.execute makes for this context.
StrategistCalls(ctx) ==
    {"recs_llm", "risk_llm", "metrics_llm"} \cup
    (IF Get(ctx, "opportunities", <<>>) = <<>> THEN {} ELSE {"plans_llm"})

\* StrategistAgent.execute
strategist_execute(ctx, ext) ==
    LET recommendations == generate_strategic_recommendations(ext["recs_llm"])
        plans ==
            create_action_plans(Get(ctx, "opportunities", <<>>), ExtOf(ext, "plans_llm"))
        risk_assessment == assess_risks_and_mitigation(ext["risk_llm"])
        success_metrics == develop_success_metrics(ext["metrics_llm"])
    IN  [success |-> TRUE,
         strategic_recommendations |-> recommendations,
         action_plans |-> plans,
         risk_assessment |-> risk_assessment,
         success_metrics |-> success_metrics,
         strategic_roadmap |->
             create_strategic_roadmap(recommendations, plans, risk_assessment,
                                      success_metrics)]

\* _generate_charts: the paths of the charts written
generate_charts(outcome) == IF outcome = "ok" THEN <<"chart.png">> ELSE <<>>

\* _format_report_content: the report's parts, or the two-line error text
format_report_content(ctx, outcome) ==
    IF outcome = "ok"
    THEN <<"# Market Intelligence Report", "Executive Summary",
           Len(Get(ctx, "market_trends", <<>>)),
           Len(Get(ctx, "opportunities", <<>>)),
           Len(Get(ctx, "strategic_recommendations", <<>>))>>
    ELSE <<"# Market Intelligence Report", "Report generation encountered an error.">>

\* _create_dashboard_data
create_dashboard_data(ctx, outcome) ==
    IF outcome = "ok"
    THEN [summary_metrics |->
              [total_trends |-> Len(Get(ctx, "market_trends", <<>>)),
               total_opportunities |-> Len(Get(ctx, "opportunities", <<>>)),
               total_recommendations |->
                   Len(Get(ctx, "strategic_recommendations", <<>>))],
          success_metrics |-> Get(ctx, "success_metrics", EmptyDict)]
    ELSE EmptyDict

\* _create_export_files: after the gather, from its three results
create_export_files(report_content, chart_files, dashboard_data, outcome) ==
    IF outcome = "ok"
    THEN [markdown |-> report_content, charts |-> Len(chart_files),
          json |-> dashboard_data]
    ELSE EmptyDict

FormatterCalls == {"charts", "report", "dashboard", "export"}

\* FormatterAgent.execute
formatter_execute(ctx, ext) ==
    LET chart_files == generate_charts(ext["charts"])
        report_content == format_report_content(ctx, ext["report"])
        dashboard_data == create_dashboard_data(ctx, ext["dashboard"])
    IN  [success |-> TRUE,
         chart_files |-> chart_files,
         report_content |-> report_content,
         dashboard_data |-> dashboard_data,
         export_files |->
             create_export_files(report_content, chart_files, dashboard_data,
                                 ext["export"])]

\* The calls a stage makes and the stage's execute.
StageCalls(a, ctx, client) ==
    CASE a = "reader" -> ReaderCalls(client)
      [] a = "analyst" -> AnalystCalls(ctx)
      [] a = "strategist" -> StrategistCalls(ctx)
      [] a = "formatter" -> FormatterCalls

stage_execute(a, ctx, ext) ==
    CASE a = "reader" -> reader_execute(ext)
      [] a = "analyst" -> analyst_execute(ctx, ext)
      [] a = "strategist" -> strategist_execute(ctx, ext)
      [] a = "formatter" -> formatter_execute(ctx, ext)

\* The sub-tasks a stage gathers, by output key, and the call each one makes.
Gathered(a) ==
    CASE a = "reader" -> {"web_content", "news_data", "trending_topics"}
      [] a = "analyst" ->
           {"market_trends", "opportunities", "competitive_landscape", "key_metrics"}
      [] a = "strategist" ->
           {"strategic_recommendations", "action_plans", "risk_assessment",
            "success_metrics"}
      [] a = "formatter" -> {"chart_files", "report_content", "dashboard_data"}

CallOf(k) ==
    CASE k = "web_content" -> "firecrawl"
      [] k = "news_data" -> "news"
      [] k = "trending_topics" -> "trending"
      [] k = "market_trends" -> "trends_llm"
      [] k = "opportunities" -> "opps_llm"
      [] k = "competitive_landscape" -> "landscape_llm"
      [] k = "strategic_recommendations" -> "recs_llm"
      [] k = "action_plans" -> "plans_llm"
      [] k = "risk_assessment" -> "risk_llm"
      [] k = "success_metrics" -> "metrics_llm"
      [] k = "chart_files" -> "charts"
      [] k = "report_content" -> "report"
      [] k = "dashboard_data" -> "dashboard"
      [] OTHER -> "none"

Deviations(ext, e) == Cardinality({c \in DOMAIN ext : ext[c] # Baseline(c, e)})

\* The outcomes of the calls of one stage: each call as the run's collaborators
\* behave, except for at most budget of them.
ExtPlans(calls, e, budget) ==
    UNION { { [c \in calls |-> IF c \in S THEN f[c] ELSE Baseline(c, e)] :
                f \in { g \in [S -> SourceOutcomes \cup LLMOutcomes \cup LocalOutcomes] :
                          \A c \in S : g[c] \in OutcomesOf(c) \ {Baseline(c, e)} } } :
            S \in {T \in SUBSET calls : Cardinality(T) <= budget} }

\* final_results of run_intelligence_workflow, the keys taken from the stages
final_results(rs) ==
    [success |-> TRUE,
     data_sources |-> Get(rs["reader"], "total_sources", 0),
     web_content |-> Get(rs["reader"], "web_content", <<>>),
     news_data |-> Get(rs["reader"], "news_data", <<>>),
     market_trends |-> Get(rs["analyst"], "market_trends", <<>>),
     opportunities |-> Get(rs["analyst"], "opportunities", <<>>),
     action_plans |-> Get(rs["strategist"], "action_plans", <<>>),
     report_content |-> Get(rs["formatter"], "report_content", <<>>)]

\* A run of the four stages on a fresh orchestrator, for a valid request.
InitPipeline ==
    /\ InitOrchestrator
    /\ ConfidenceIdle
    /\ PlansIdle
    /\ MoreIdle
    /\ news_key \in BOOLEAN
    /\ newsdata \in {reader_init(news_key, constructed) : constructed \in BOOLEAN}
    /\ env \in [sources : SourceModes, llm : LLMModes]
    /\ pipe_pc = "reader"
    /\ pipe_ctx = [query |-> Strip(QueryPadded), market_domain |-> DomainPlain,
                   question |-> NoneVal]
    /\ pipe_in = EmptyDict
    /\ pipe_ext = EmptyDict
    /\ pipe_results = [a \in AgentKeys |-> EmptyDict]
    /\ pipe_last = "none"
    /\ pipe_devs = 0
    /\ pipe_final = EmptyDict

\* One stage of run_intelligence_workflow: the agent's run on the accumulated
\* context, the success check, the merge of its result into the context, and
\* after the formatter the final results.
PipelineStage(a) ==
    /\ pipe_pc = a
    /\ \E ext \in ExtPlans(StageCalls(a, pipe_ctx, newsdata), env,
                           MaxDeviations - pipe_devs) :
         LET res == stage_execute(a, pipe_ctx, ext)
             rs == [pipe_results EXCEPT ![a] = res]
         IN  /\ pipe_in' = pipe_ctx
             /\ pipe_ext' = ext
             /\ pipe_last' = a
             /\ pipe_devs' = pipe_devs + Deviations(ext, env)
             /\ pipe_results' = rs
             /\ IF Succeeded(res)
                THEN /\ pipe_ctx' = Update(pipe_ctx, res)
                     /\ pipe_pc' = IF a = "formatter" THEN "done" ELSE NextStage(a)
                     /\ pipe_final' = IF a = "formatter" THEN final_results(rs)
                                      ELSE pipe_final
                ELSE /\ pipe_pc' = "failed"
                     /\ UNCHANGED <<pipe_ctx, pipe_final>>
    /\ UNCHANGED <<news_key, newsdata, env, orchAll, confVars, planVars, moreVars>>

NextPipeline == \E a \in AgentKeys : PipelineStage(a)

SpecPipeline == InitPipeline /\ [][NextPipeline]_vars

\* ---------------------------------------------------------------- roadmap
\* Recommendation records: the expected values, a record without priority and
\* timeline, one with other values, and implementation_steps that are absent,
\* a list of steps, the empty list, or None.
RoadRecords ==
    { [strategy_title |-> "r1", priority_level |-> "High",
       implementation_timeline |-> "Short-term",
       implementation_steps |->
           [type |-> "list", value |-> << [step |-> "s1", dependencies |-> <<"d1">>] >>]],
      [strategy_title |-> "r2", priority_level |-> "Medium",
       implementation_timeline |-> "Medium-term"],
      [strategy_title |-> "r3", priority_level |-> "Low",
       implementation_timeline |-> "Long-term",
       implementation_steps |-> [type |-> "list", value |-> << [step |-> "s1"] >>]],
      [strategy_title |-> "r4"],
      [strategy_title |-> "r5", priority_level |-> "Critical",
       implementation_timeline |-> "Immediate"],
      [strategy_title |-> "r6", priority_level |-> "High",
       implementation_timeline |-> "Short-term",
       implementation_steps |-> [type |-> "list", value |-> <<>>]],
      [strategy_title |-> "r7", priority_level |-> "Low",
       implementation_timeline |-> "Long-term",
       implementation_steps |-> [type |-> "NoneType", value |-> <<>>]] }

InitRoadmap ==
    /\ RoadAlone
    /\ road_recs = <<>>
    /\ road_map = create_strategic_roadmap(<<>>, <<>>, EmptyDict, EmptyDict)

\* The roadmap of the list with one more recommendation.
AddRecommendation(r) ==
    /\ Len(road_recs) < MaxRecs
    /\ road_recs' = Append(road_recs, r)
    /\ road_map' = create_strategic_roadmap(road_recs', <<>>, EmptyDict, EmptyDict)
    /\ UNCHANGED othersRoad

NextRoadmap == \E r \in RoadRecords : AddRecommendation(r)

SpecRoadmap == InitRoadmap /\ [][NextRoadmap]_vars

\* ---------------------------------------------------------------- report directory and exports
MinuteTicks == SecPerMin * TicksPerSec

ExportSteps == {"markdown", "pdf", "docx", "json"}

\* _create_export_files, by step: the files it has written when it returns.
\* A failed markdown or JSON write ends it; a failed PDF or DOCX export does not.
ExportsWritten(o) ==
    IF o["markdown"] # "ok" THEN {}
    ELSE {"markdown"} \cup {f \in {"pdf", "docx"} : o[f] = "ok"}
         \cup (IF o["json"] = "ok" THEN {"json"} ELSE {})

\* _create_export_files, by step: the keys of the mapping it returns.
export_files_keys(o) ==
    IF o["markdown"] = "ok" /\ o["json"] = "ok" THEN ExportsWritten(o) ELSE {}

InitFormatter ==
    /\ FmtAlone
    /\ FormatterIdle

\* Time passes between two runs of the formatter: a tick, or a minute.
FormatterWait(d) ==
    /\ \/ d = 1 /\ fmt_now % MinuteTicks < MaxTime
       \/ d = MinuteTicks /\ fmt_now \div MinuteTicks < MaxMinutes
    /\ fmt_now' = fmt_now + d
    /\ UNCHANGED <<disk, fmt_last, othersFmt>>

\* FormatterAgent.execute: the directory named after the minute, made with
\* exist_ok, then the export files written into it (what the charts, the
\* report text and the dashboard data are is the previous section's).
FormatterRun(o) ==
    LET report_dir == ReportDir(fmt_now)
        existed == report_dir \in DOMAIN disk
        found == IF existed THEN disk[report_dir] ELSE {}
        written == ExportsWritten(o)
    IN  /\ disk' = [d \in DOMAIN disk \cup {report_dir} |->
                       IF d = report_dir THEN found \cup written ELSE disk[d]]
        /\ fmt_last' = [success |-> TRUE, report_dir |-> report_dir,
                        existed |-> existed, outcomes |-> o,
                        export_files |-> export_files_keys(o)]
        /\ UNCHANGED <<fmt_now, othersFmt>>

NextFormatter ==
    \/ \E d \in {1, MinuteTicks} : FormatterWait(d)
    \/ \E o \in [ExportSteps -> {"ok", "raise"}] : FormatterRun(o)

SpecFormatter == InitFormatter /\ [][NextFormatter]_vars

\* ---------------------------------------------------------------- history round trip
\* Python values that json.dumps takes, each under one tag: [str |-> text],
\* [num |-> n], [null |-> TRUE], [list |-> values], [dict |-> <<key, value>>
\* pairs in insertion order]. The JSON text is a sequence of tokens: the
\* scalars, [key |-> k] and the punctuation [p |-> c].
P(c) == [p |-> c]

RECURSIVE json_dumps(_), dumps_items(_), dumps_pairs(_)
json_dumps(v) ==
    IF "list" \in DOMAIN v THEN <<P("[")>> \o dumps_items(v.list) \o <<P("]")>>
    ELSE IF "dict" \in DOMAIN v THEN <<P("{")>> \o dumps_pairs(v.dict) \o <<P("}")>>
    ELSE <<v>>

dumps_items(xs) ==
    IF xs = <<>> THEN <<>>
    ELSE json_dumps(Head(xs)) \o (IF Len(xs) > 1 THEN <<P(",")>> ELSE <<>>)
         \o dumps_items(Tail(xs))

dumps_pairs(ps) ==
    IF ps = <<>> THEN <<>>
    ELSE <<[key |-> Head(ps)[1]], P(":")>> \o json_dumps(Head(ps)[2])
         \o (IF Len(ps) > 1 THEN <<P(",")>> ELSE <<>>) \o dumps_pairs(Tail(ps))

\* json.loads of a text json.dumps wrote: the value read and the tokens left
RECURSIVE parse_value(_), parse_items(_, _), parse_pairs(_, _)
parse_value(ts) ==
    IF Head(ts) = P("[")
    THEN IF ts[2] = P("]") THEN [value |-> [list |-> <<>>], rest |-> Tail(Tail(ts))]
         ELSE parse_items(Tail(ts), <<>>)
    ELSE IF Head(ts) = P("{")
    THEN IF ts[2] = P("}") THEN [value |-> [dict |-> <<>>], rest |-> Tail(Tail(ts))]
         ELSE parse_pairs(Tail(ts), <<>>)
    ELSE [value |-> Head(ts), rest |-> Tail(ts)]

parse_items(ts, acc) ==
    LET r == parse_value(ts)
    IN  IF Head(r.rest) = P(",") THEN parse_items(Tail(r.rest), Append(acc, r.value))
        ELSE [value |-> [list |-> Append(acc, r.value)], rest |-> Tail(r.rest)]

parse_pairs(ts, acc) ==
    LET r == parse_value(Tail(Tail(ts)))
        pair == <<Head(ts).key, r.value>>
    IN  IF Head(r.rest) = P(",") THEN parse_pairs(Tail(r.rest), Append(acc, pair))
        ELSE [value |-> [dict |-> Append(acc, pair)], rest |-> Tail(r.rest)]

json_loads(ts) == parse_value(ts).value

\* An Optional[str] field as a JSON value and back.
OptStr(v) == IF v = NoneVal THEN [null |-> TRUE] ELSE [str |-> v]

FromOptStr(j) == IF "null" \in DOMAIN j THEN NoneVal ELSE j.str

\* The value of key k of a JSON object.
Member(d, k) == d.dict[CHOOSE i \in 1..Len(d.dict) : d.dict[i][1] = k][2]

\* state.dict(): the fields the history uses, in declaration order (the other
\* fields keep their defaults).
state_dict(s) ==
    [dict |-> << <<"market_trends", [list |-> s.market_trends]>>,
                 <<"opportunities", [list |-> s.opportunities]>>,
                 <<"strategic_recommendations", [list |-> s.strategic_recommendations]>>,
                 <<"market_domain", [str |-> s.market_domain]>>,
                 <<"query", OptStr(s.query)>>,
                 <<"state_id", [str |-> s.state_id]>> >>]

\* MarketIntelligenceState(**d): the field validators run on the values given.
NewState(d) ==
    LET q == validate_query(FromOptStr(Member(d, "query")))
        m == validate_market_domain(Member(d, "market_domain").str)
    IN  [ok |-> q.ok /\ m.ok,
         state |-> [state_id |-> Member(d, "state_id").str,
                    query |-> q.value,
                    market_domain |-> m.value,
                    market_trends |-> Member(d, "market_trends").list,
                    opportunities |-> Member(d, "opportunities").list,
                    strategic_recommendations |->
                        Member(d, "strategic_recommendations").list]]

NoneState == EmptyDict

\* The row save_state writes for a state.
StateRow(state) ==
    [id |-> state.state_id, market_domain |-> state.market_domain,
     query |-> state.query, state_data |-> json_dumps(state_dict(state))]

\* load_state: None for no row and for a row the state cannot be built from.
load_state(table, state_id) ==
    IF state_id \notin DOMAIN table THEN NoneState
    ELSE LET built == NewState(json_loads(table[state_id].state_data))
         IN  IF built.ok THEN built.state ELSE NoneState

\* Records of the lists, as parsed from the LLM's JSON.
JsonTrend(name) ==
    [dict |-> << <<"trend_name", [str |-> <<name>>]>>,
                 <<"confidence_score", [num |-> 70]>>,
                 <<"supporting_evidence", [list |-> <<[str |-> <<"e">>], [null |-> TRUE]>>]>>,
                 <<"details", [dict |-> <<>>]>> >>]

StateIds == {<<"s", "1">>, <<"s", "2">>}

\* The states there are to save: built by the constructor from an id, a query
\* (None or text), a market domain (text, or blanks only) and the lists.
HistoryStates ==
    { b.state : b \in
        { c \in { NewState(state_dict(
                     [state_id |-> i, query |-> q, market_domain |-> m,
                      market_trends |-> l,
                      opportunities |-> <<>>,
                      strategic_recommendations |->
                          IF l = <<>> THEN <<>> ELSE <<l[1]>>])) :
                   i \in StateIds, q \in {NoneVal, QueryPadded},
                   m \in {DomainPlain, <<" ">>},
                   l \in {<<>>, <<JsonTrend("t2"), JsonTrend("t1")>>} } : c.ok } }

InitHistory ==
    /\ HistAlone
    /\ HistoryIdle

\* save_state(s) that succeeds: INSERT OR REPLACE of the row of s.
HistorySave(s) ==
    /\ hist_table' = Update(hist_table, [i \in {s.state_id} |-> StateRow(s)])
    /\ hist_saved' = Update(hist_saved, [i \in {s.state_id} |-> s])
    /\ UNCHANGED <<hist_load, othersHist>>

\* load_state(state_id), with the state last saved under this id.
HistoryLoad(state_id) ==
    /\ hist_load' = [state_id |-> state_id,
                     result |-> load_state(hist_table, state_id),
                     saved |-> Get(hist_saved, state_id, NoneState)]
    /\ UNCHANGED <<hist_table, hist_saved, othersHist>>

NextHistory ==
    \/ \E s \in HistoryStates : HistorySave(s)
    \/ \E i \in StateIds \cup {<<"s", "3">>} : HistoryLoad(i)

SpecHistory == InitHistory /\ [][NextHistory]_vars

\* ---------------------------------------------------------------- search cache
SearchAttempts == 3

\* TTLCache: the entries in the order of their links (least recently used
\* first), each with the time it expires at.
CacheKey(query) == <<"tavily", query>>

Position(cache, key) ==
    IF \E i \in 1..Len(cache) : cache[i].key = key
    THEN CHOOSE i \in 1..Len(cache) : cache[i].key = key
    ELSE 0

Without(cache, key) == SelectSeq(cache, LAMBDA e : e.key # key)

\* key in cache: there is a link and timer() < link.expires
cache_contains(cache, key, time) ==
    Position(cache, key) # 0 /\ time < cache[Position(cache, key)].expires

\* cache[key] of a key that is in it: the link moves to the end
cache_getitem(cache, key) ==
    [value |-> cache[Position(cache, key)].value,
     cache |-> Append(Without(cache, key), cache[Position(cache, key)])]

\* expire(time): the links that have expired go
cache_expire(cache, time) == SelectSeq(cache, LAMBDA e : time < e.expires)

\* cache[key] = value with no entry making room.
cache_setitem_unbounded(cache, key, value, time) ==
    Append(Without(cache_expire(cache, time), key),
           [key |-> key, value |-> value, expires |-> time + CacheTTL])

\* cache[key] = value: expire, make room from the front while the cache is
\* full and the key is new, store, link at the end with time + ttl.
cache_setitem(cache, key, value, time) ==
    LET live == cache_expire(cache, time)
        kept == IF Position(live, key) = 0 /\ Len(live) >= CacheSize
                THEN SubSeq(live, Len(live) - CacheSize + 2, Len(live))
                ELSE live
    IN  Append(Without(kept, key),
               [key |-> key, value |-> value, expires |-> time + CacheTTL])

SearchQueries == {"q1", "q2", "q3"}

\* What a request to the search API ends in: a list of URLs or a RequestException.
SearchResponses == {<<"url1">>, <<"url2", "url1">>}

InitSearch ==
    /\ CacheAlone
    /\ SearchIdle

\* Time passes, between calls and between the attempts of a call.
CacheTick ==
    /\ cache_now < MaxCacheTime
    /\ cache_now' = cache_now + 1
    /\ UNCHANGED <<search_cache, search_pc, search_step, search_ret, othersCache>>

\* search_with_tavily(query) is called.
SearchCall(query) ==
    /\ search_pc = EmptyDict
    /\ search_pc' = [query |-> query, attempt |-> 1]
    /\ UNCHANGED <<cache_now, search_cache, search_step, search_ret, othersCache>>

\* One attempt under @retry: the cached list for a hit, else a request; its
\* list is stored and returned, its failure is raised and the call is tried
\* again unless this was the third attempt.
SearchAttempt(response, failed) ==
    /\ search_pc # EmptyDict
    /\ LET key == CacheKey(search_pc.query)
       IN  IF cache_contains(search_cache, key, cache_now)
           THEN /\ search_cache' = cache_getitem(search_cache, key).cache
                /\ search_step' = [query |-> search_pc.query, at |-> cache_now,
                                   requested |-> FALSE, failed |-> FALSE]
                /\ search_ret' = [raised |-> FALSE,
                                  value |-> cache_getitem(search_cache, key).value]
                /\ search_pc' = EmptyDict
           ELSE /\ search_step' = [query |-> search_pc.query, at |-> cache_now,
                                   requested |-> TRUE, failed |-> failed]
                /\ IF failed
                   THEN /\ search_cache' = search_cache
                        /\ IF search_pc.attempt < SearchAttempts
                           THEN /\ search_pc' = [search_pc EXCEPT !.attempt = @ + 1]
                                /\ search_ret' = search_ret
                           ELSE /\ search_pc' = EmptyDict
                                /\ search_ret' = [raised |-> TRUE, value |-> <<>>]
                   ELSE /\ search_cache' =
                              cache_setitem(search_cache, key, response, cache_now)
                        /\ search_ret' = [raised |-> FALSE, value |-> response]
                        /\ search_pc' = EmptyDict
    /\ UNCHANGED <<cache_now, othersCache>>

NextSearch ==
    \/ CacheTick
    \/ \E q \in SearchQueries : SearchCall(q)
    \/ \E r \in SearchResponses, f \in BOOLEAN : SearchAttempt(r, f)

SpecSearch == InitSearch /\ [][NextSearch]_vars

\* ---------------------------------------------------------------- overlapping runs
InitOverlap ==
    /\ OvAlone
    /\ OverlapIdle

\* BaseAgent.run from its entry to the first await of execute: nothing is
\* checked before the fields are reset.
RunEnter(c) ==
    /\ ov_runs[c] = "none"
    /\ ov_runs' = [ov_runs EXCEPT ![c] = "executing"]
    /\ ov_found' = ov_status
    /\ ov_status' = "running"
    /\ ov_progress' = 0
    /\ UNCHANGED <<ov_results, othersOv>>

\* The execute of caller c's invocation ends: run stores the results and
\* completes, or marks the agent cancelled or failed.
RunLeave(c, kind) ==
    /\ ov_runs[c] = "executing"
    /\ ov_runs' = [ov_runs EXCEPT ![c] = "none"]
    /\ ov_status' = RunStatus(kind)
    /\ ov_results' = IF kind = "ok" THEN c ELSE ov_results
    /\ ov_progress' = IF kind = "ok" THEN 100 ELSE ov_progress
    /\ UNCHANGED <<ov_found, othersOv>>

\* update_progress of an invocation in progress (execute's checkpoints).
RunProgress(c, p) ==
    /\ ov_runs[c] = "executing"
    /\ ov_progress' = ClampProgress(p)
    /\ UNCHANGED <<ov_runs, ov_status, ov_results, ov_found, othersOv>>

NextOverlap ==
    \/ \E c \in RunCallers : RunEnter(c)
    \/ \E c \in RunCallers, kind \in {"ok", "cancelled", "error"} : RunLeave(c, kind)
    \/ \E c \in RunCallers, p \in {10, 40, 70} : RunProgress(c, p)

SpecOverlap == InitOverlap /\ [][NextOverlap]_vars

\* ---------------------------------------------------------------- run ids
InitRunIds ==
    /\ IdAlone
    /\ RunIdsIdle

IdTick ==
    /\ id_now < MaxRunTicks
    /\ id_now' = id_now + 1
    /\ UNCHANGED <<id_start, id_pc, id_ids, id_db, othersId>>

\* run_intelligence_workflow is entered: self.start_time = datetime.now()
WorkflowEnter(c) ==
    /\ id_pc[c] = "none"
    /\ id_pc' = [id_pc EXCEPT ![c] = "running"]
    /\ id_start' = id_now
    /\ UNCHANGED <<id_now, id_ids, id_db, othersId>>

\* The call's last stage succeeded: the ids are formed from self.start_time,
\* the state is saved under them and the results are returned.
WorkflowLeave(c) ==
    /\ id_pc[c] = "running"
    /\ id_pc' = [id_pc EXCEPT ![c] = "done"]
    /\ id_ids' = [id_ids EXCEPT ![c] = WorkflowId(id_start)]
    /\ id_db' = save_state(id_db,
                           [state_id |-> WorkflowId(id_start),
                            market_domain |-> DomainPlain, query |-> Strip(QueryPadded)],
                           id_now)
    /\ UNCHANGED <<id_now, id_start, othersId>>

NextRunIds ==
    \/ IdTick
    \/ \E c \in WorkflowCalls : WorkflowEnter(c)
    \/ \E c \in WorkflowCalls : WorkflowLeave(c)

SpecRunIds == InitRunIds /\ [][NextRunIds]_vars

\* ---------------------------------------------------------------- firecrawl retries
SearchTries == 3      \* for attempt in range(3)
QueryLimit == 100     \* query[:100]
ResultLimit == 10     \* min(num_results, 10)

\* What one POST to /search ends in: a body with items, a body without "data",
\* a timeout, or any other exception (connection, HTTP status, JSON).
SearchOutcomes == {"rich", "thin", "nodata", "timeout", "error"}

SearchFails(outcome) == outcome \in {"timeout", "error"}

\* The results built from the response of a request that succeeded.
SearchResults(outcome) == IF outcome = "nodata" THEN <<>> ELSE WebResults(outcome)

\* A sleep after every attempt that failed.
Backoff_always(attempt) == <<2 ^ attempt>>

\* "if attempt < 2: time.sleep(2 ** attempt)", attempt counted from 0
Backoff(attempt) == IF attempt < SearchTries - 1 THEN <<2 ^ attempt>> ELSE <<>>

InitFirecrawl ==
    /\ FcAlone
    /\ fc_input \in [query : {5, QueryLimit, QueryLimit + 1}, num_results : {1, 5, 20}]
    /\ fc_pc = "running"
    /\ fc_log = <<>>
    /\ fc_slept = <<>>
    /\ fc_ret = <<>>
    /\ fc_web = <<>>

\* One pass of the loop: the request, then the return of its results or the
\* handler of its exception; after the last pass that failed, return [].
SearchAndScrapeAttempt(outcome) ==
    /\ fc_pc = "running"
    /\ fc_log' = Append(fc_log,
                        [query |-> Min(fc_input.query, QueryLimit),
                         limit |-> Min(fc_input.num_results, ResultLimit),
                         outcome |-> outcome])
    /\ IF SearchFails(outcome)
       THEN /\ fc_slept' = fc_slept \o Backoff(Len(fc_log))
            /\ fc_pc' = IF Len(fc_log) + 1 < SearchTries THEN "running" ELSE "returned"
            /\ fc_ret' = <<>>
       ELSE /\ fc_slept' = fc_slept
            /\ fc_pc' = "returned"
            /\ fc_ret' = SearchResults(outcome)
    /\ UNCHANGED <<fc_input, fc_web, othersFc>>

\* _collect_web_content on what search_and_scrape returned.
CollectWeb ==
    /\ fc_pc = "returned"
    /\ fc_pc' = "collected"
    /\ fc_web' = FilterWeb(fc_ret)
    /\ UNCHANGED <<fc_input, fc_log, fc_slept, fc_ret, othersFc>>

NextFirecrawl ==
    \/ \E o \in SearchOutcomes : SearchAndScrapeAttempt(o)
    \/ CollectWeb

SpecFirecrawl == InitFirecrawl /\ [][NextFirecrawl]_vars

\* ================================================================ claims
\* The step in which the run of stage a ends (it returns to the orchestrator
\* or raises through it).
RunEnds(a) == call_pc = a /\ call_pc' # a

CallEnded == call_pc \in {"returned", "raised"}

\* C1: when the run of stage k returns a falsy success, the workflow call
\* invokes no further stage, sets workflow_status to failed and returns (does
\* not raise) a result with success = false whose failed_step is the step
\* label of stage k; after the call has returned no run is invoked for it.
C1_FailedStageAborts ==
    [][ /\ \A a \in AgentKeys :
             (RunEnds(a) /\ last_run'.outcome = "return"
                         /\ last_run'.value.success = FALSE)
             => /\ call_pc' = "returned"
                /\ invoked' = invoked
                /\ invoked[Len(invoked)] = a
                /\ workflow_status' = "failed"
                /\ ret'.success = FALSE
                /\ ret'.failed_step = StepLabel(a)
        /\ CallEnded => invoked' = invoked ]_vars

\* C1 witness: the analyst failed, the strategist and the formatter were never
\* invoked and the failure names the analyst's step.
C1_Witness ==
    /\ call_pc = "returned"
    /\ last_run.agent = "analyst"
    /\ last_run.value.success = FALSE
    /\ invoked = <<"reader", "analyst">>
    /\ ret.success = FALSE
    /\ ret.failed_step = "Data Analysis"

\* C2: the stages run in the order reader, analyst, strategist, formatter,
\* each at most once per call, and a stage's run is invoked only after the
\* runs of all stages before it have returned (with success).
C2_StrictOrder ==
    /\ Len(invoked) <= Len(StageOrder)
    /\ \A i \in 1..Len(invoked) : invoked[i] = StageOrder[i]
    /\ \A i \in 1..(Len(invoked) - 1) :
         Get(stage_results[invoked[i]], "success", FALSE) = TRUE
    /\ \A a \in AgentKeys : call_pc = a => invoked[Len(invoked)] = a

\* C2 witness: a call that ran all four stages.
C2_Witness ==
    /\ call_pc = "returned"
    /\ invoked = StageOrder
    /\ ret.success = TRUE

\* C3: when execute raises a non-cancellation exception, run sets status
\* failed, records the message and returns success = false with the agent's
\* name; when a cancellation is raised during execute, also inside a sub-task,
\* run sets status cancelled and re-raises it, and no sub-task handler turns
\* the cancellation into a fallback result.
C3_FailureAsymmetry ==
    [][ \A a \in AgentKeys :
          RunEnds(a) =>
            /\ last_run'.agent = a
            /\ last_run'.cancel =>
                 /\ last_run'.exec = "cancelled"
                 /\ last_run'.outcome = "raise"
                 /\ agent_status'[a] = "cancelled"
                 /\ call_pc' = "raised"
            /\ (last_run'.defect /\ ~last_run'.cancel) =>
                 /\ last_run'.exec = "error"
                 /\ last_run'.outcome = "return"
                 /\ agent_status'[a] = "failed"
                 /\ agent_error'[a] # "None"
                 /\ last_run'.value.success = FALSE
                 /\ last_run'.value.agent = AgentName(a)
            /\ last_run'.outcome = "raise" <=> last_run'.exec = "cancelled" ]_vars

\* C3 witness: a cancellation raised in a sub-task of the strategist left its
\* run as an exception.
C3_Witness ==
    /\ call_pc = "raised"
    /\ last_run.agent = "strategist"
    /\ last_run.cancel
    /\ last_run.outcome = "raise"
    /\ agent_status["strategist"] = "cancelled"

\* C4: every run_intelligence_workflow invocation that stops executing, by
\* returning or by a cancellation propagating out of it, leaves
\* workflow_status completed or failed, never running.
C4_EndsCompletedOrFailed ==
    [][ (InFlight /\ ~InFlight') =>
          workflow_status' \in {"completed", "failed"} ]_vars

\* C5: the history store is written only by a call all four of whose stages
\* returned success; a call in which a stage raised or returned a falsy
\* success leaves the store untouched and attempts no save.
C5_HistoryOnlyAfterSuccess ==
    [][ /\ (db' # db \/ save_log' # save_log) =>
             /\ invoked' = StageOrder
             /\ \A a \in AgentKeys :
                  Get(stage_results'[a], "success", FALSE) = TRUE
        /\ (InFlight /\ ~InFlight'
              /\ \E a \in AgentKeys :
                   Get(stage_results'[a], "success", FALSE) # TRUE) =>
             /\ db' = db
             /\ save_log' = "none" ]_vars

\* C5 witness: the reader's execute raised, the call returned a failure naming
\* the reader's step and nothing was written to the history.
C5_Witness ==
    /\ call_pc = "returned"
    /\ last_run.agent = "reader"
    /\ last_run.exec = "error"
    /\ ret.success = FALSE
    /\ ret.failed_step = "Data Collection"
    /\ save_log = "none"
    /\ db = EmptyDict

\* Equality of two strings up to surrounding whitespace.
SameText(x, y) ==
    IF x = NoneVal \/ y = NoneVal THEN x = y ELSE Strip(x) = Strip(y)

\* C6: for every query and market domain, a call that returned success = true
\* has, unless the store refused the write, stored a record under the run's id
\* that carries the run's query, domain, question, report directory, trends,
\* opportunities and recommendations.
C6_SuccessIsRecorded ==
    (call_pc = "returned" /\ ret.success = TRUE /\ save_log # "db_error") =>
        /\ ret.state_id \in DOMAIN db
        /\ LET st == db[ret.state_id].state_data
           IN  /\ SameText(st.query, request.query)
               /\ SameText(st.market_domain, request.market_domain)
               /\ st.question = request.question
               /\ st.report_dir = ret.report_dir
               /\ st.market_trends = ret.market_trends
               /\ st.opportunities = ret.opportunities
               /\ st.strategic_recommendations = ret.strategic_recommendations

\* C7: when saving the history record fails after all four stages succeeded
\* (the record cannot be built, or the store raises), the call still returns
\* the success = true result and workflow_status stays completed.
C7_SaveFailureIsHarmless ==
    [][ (RunEnds("formatter") /\ save_log' \in {"invalid", "db_error"}) =>
          /\ call_pc' = "returned"
          /\ workflow_status' = "completed"
          /\ ret'.success = TRUE
          /\ ret' = FinalResults(stage_results', now)
          /\ db' = db ]_vars

\* C7 witness: the store refused the write of a successful run.
C7_Witness ==
    /\ call_pc = "returned"
    /\ save_log = "db_error"
    /\ ret.success = TRUE
    /\ workflow_status = "completed"

\* The value key k must hold in the context handed to the stage at position i:
\* that of the latest earlier stage that returned k, else that of the request.
RECURSIVE ExpectedValue(_, _)
ExpectedValue(k, i) ==
    IF i = 1 THEN request[k]
    ELSE IF k \in DOMAIN stage_results[StageOrder[i - 1]]
    THEN stage_results[StageOrder[i - 1]][k]
    ELSE ExpectedValue(k, i - 1)

\* C8: the context handed to stage k holds the request keys and every key
\* returned by stages 1..k-1, each with the value of the latest stage that
\* returned it, and no key of the context handed to stage k is missing from
\* the context handed to stage k+1.
C8_ContextGrows ==
    \A i \in 1..Len(passed) :
        /\ {"query", "market_domain", "question"} \subseteq DOMAIN passed[i]
        /\ \A j \in 1..(i - 1) :
             DOMAIN stage_results[StageOrder[j]] \subseteq DOMAIN passed[i]
        /\ \A k \in DOMAIN passed[i] : passed[i][k] = ExpectedValue(k, i)
        /\ i > 1 => DOMAIN passed[i - 1] \subseteq DOMAIN passed[i]

\* C8 witness: the formatter was handed a context with the request and the
\* outputs of the three stages before it, one of them a fallback.
C8_Witness ==
    /\ Len(passed) = 4
    /\ passed[4]["query"] = QueryShort
    /\ passed[4]["market_trends"] = Fallback("market_trends")
    /\ passed[4]["strategic_roadmap"] = Genuine("strategic_roadmap")
    /\ passed[4]["total_sources"] = 2

\* C9: get_workflow_status is a pure read: whenever no workflow call is in
\* flight (before any run, after a completed or failed run, after
\* cancel_workflow, after a run ended by a propagated cancellation), a call
\* changes no orchestrator or agent field and returns the same snapshot,
\* durations included, as the call before it.
C9_StatusIsPureRead ==
    [][ (get_workflow_status /\ ~InFlight) =>
          /\ UNCHANGED <<orchVars, agentVars>>
          /\ snap.taken => snap' = snap ]_vars

\* C10: when cancel_workflow returns, workflow_status is cancelled, having
\* been cancelling, every agent that was running when it was called is
\* cancelled and every other agent has the status it had.
C10_CancelMarksRunning ==
    [][ (cancel_pc = "cancelling" /\ cancel_pc' = "idle") =>
          /\ workflow_status = "cancelling"
          /\ workflow_status' = "cancelled"
          /\ \A a \in AgentKeys :
               agent_status'[a] =
                 IF cancel_pre[a] = "running" THEN "cancelled" ELSE cancel_pre[a] ]_vars

\* C10 witness: cancel_workflow returned while the analyst was running: the
\* analyst is cancelled, the reader is still completed, the others idle.
C10_Witness ==
    /\ cancel_pc = "idle"
    /\ call_pc = "analyst"
    /\ workflow_status = "cancelled"
    /\ agent_status["analyst"] = "cancelled"
    /\ agent_status["reader"] = "completed"
    /\ agent_status["formatter"] = "idle"

\* C11: while a later invocation of run is running on an agent that finished an
\* earlier one, get_status reports the new invocation only: status running, no
\* error message, the new start time, no end time, and a duration counted from
\* the new start, never negative.
C11_RerunFieldsAreFresh ==
    \A a \in AgentKeys :
        (single_pc = a /\ last_run.agent = a) =>
            LET s == get_status(a, now)
            IN  /\ s.status = "running"
                /\ s.error_message = "None"
                /\ s.start_time # NoTime
                /\ s.start_time <= now
                /\ s.end_time = NoTime
                /\ s.duration = <<now - s.start_time>>
                /\ s.duration[1] >= 0

\* The checkpoint the claim names for each stage.
C12Checkpoint(a) ==
    CASE a = "reader" -> 10
      [] a = "analyst" -> 35
      [] a = "strategist" -> 65
      [] a = "formatter" -> 85

\* C12: during a workflow call progress takes only the values 0, 10, 35, 65,
\* 85, 100 and never decreases; when a stage's run is invoked progress is that
\* stage's checkpoint; it is 100 only after the formatter returned success; a
\* failure result reports the checkpoint of the stage that failed.
C12_ProgressCheckpoints ==
    [][ /\ progress' \in {0, 10, 35, 65, 85, 100}
        /\ progress' >= progress
        /\ \A a \in AgentKeys : call_pc' = a => progress' = C12Checkpoint(a)
        /\ progress' = 100 =>
              /\ invoked' = StageOrder
              /\ Get(stage_results'["formatter"], "success", FALSE) = TRUE
        /\ (call_pc' = "returned" /\ ret'.success = FALSE) =>
              ret'.progress = C12Checkpoint(invoked'[Len(invoked')]) ]_vars

\* C12 witness: the strategist failed and the failure reports progress 65.
C12_Witness ==
    /\ call_pc = "returned"
    /\ ret.success = FALSE
    /\ last_run.agent = "strategist"
    /\ ret.progress = 65
    /\ progress = 65

\* The overlap count: aligned trends plus aligned high-potential opportunities.
OverlapCount(recommendation, trends, opportunities) ==
    trend_alignment(recommendation, trends)
    + opportunity_alignment(recommendation, opportunities)

C19_TopThreePlans ==
    /\ Len(plan_calls) <= 3
    /\ \A i \in 1..Len(plan_calls) : plan_calls[i] = plan_opps[i]
    /\ plan_pc = "done" =>
          /\ Len(plan_ret) <= 3
          /\ (\A i \in 1..Len(plan_outcomes) : plan_outcomes[i] = "dict") =>
                /\ Len(plan_ret) = (IF Len(plan_opps) < 3 THEN Len(plan_opps) ELSE 3)
                /\ \A i \in 1..Len(plan_ret) : plan_ret[i] = PlanFor(plan_opps[i], i)

\* C19 witness: 5 opportunities, every invocation returned a mapping, 3 plans.
C19_Witness ==
    /\ plan_pc = "done"
    /\ Len(plan_opps) = 5
    /\ plan_outcomes = <<"dict", "dict", "dict">>
    /\ Len(plan_ret) = 3

\* C20: when the sub-task has returned, every one of the top-3 opportunities
\* has had its invocation, the plan of every invocation that returned a
\* mapping is in the returned list, and the list is empty only if no
\* invocation returned a mapping.
C20_OneFailureDoesNotBlock ==
    plan_pc = "done" =>
        /\ Len(plan_calls) = Len(top_opportunities(plan_opps))
        /\ \A i \in 1..Len(plan_calls) :
              plan_outcomes[i] = "dict" =>
                  \E j \in 1..Len(plan_ret) : plan_ret[j] = PlanFor(plan_calls[i], i)
        /\ (plan_ret = <<>>) => \A i \in 1..Len(plan_outcomes) : plan_outcomes[i] # "dict"

\* C14: with the news source never configured, the reader stage invokes
\* neither the news collection nor the trending-topic collection and returns
\* success with news_data and trending_topics empty lists and total_sources
\* the number of web content items.
C14_NewsNeverConfigured ==
    (~news_key /\ pipe_last # "none") =>
        LET r == pipe_results["reader"]
        IN  /\ pipe_last = "reader" =>
                  /\ "news" \notin DOMAIN pipe_ext
                  /\ "trending" \notin DOMAIN pipe_ext
                  /\ "firecrawl" \in DOMAIN pipe_ext
            /\ r.success = TRUE
            /\ r.news_data = <<>>
            /\ r.trending_topics = <<>>
            /\ r.total_sources = Len(r.web_content)

\* C14 witness: no news key, the reader has run and has one web item.
C14_Witness ==
    /\ ~news_key
    /\ pipe_last = "reader"
    /\ pipe_ext["firecrawl"] = "rich"
    /\ pipe_results["reader"].total_sources = 1

\* C15: whenever the reader's LLM pass raises or returns output that does
\* not parse as JSON, processed_data is the fixed default structure (score 5,
\* no key themes, no market signals) and the reader stage returns success.
C15_ProcessingDefault ==
    (pipe_last = "reader" /\ pipe_ext["reader_llm"] \in {"raise", "wrong"}) =>
        LET r == pipe_results["reader"]
        IN  /\ r.success = TRUE
            /\ r.processed_data.data_quality_score = 5
            /\ r.processed_data.key_themes = <<>>
            /\ r.processed_data.market_signals = <<>>

\* Two records, each carrying the fallback-data note.
TwoFlagged(records) ==
    /\ Len(records) = 2
    /\ \A i \in 1..Len(records) :
          /\ "note" \in DOMAIN records[i]
          /\ records[i].note = "Fallback data - limited external sources available"

\* C16: for every analyst input whose web and news items are none, or all
\* at or below the 50-character threshold, the analyst stage returns success
\* with exactly 2 trends and 2 opportunities, each flagged as fallback data;
\* a completed run without sources reports data_sources = 0, these flagged
\* fallbacks and a report text that is not empty.
C16_FallbackAnalysis ==
    /\ pipe_last \in {"analyst", "strategist", "formatter"} =>
          LET items == pipe_ctx["web_content"] \o pipe_ctx["news_data"]
              r == pipe_results["analyst"]
          IN  (\A i \in 1..Len(items) :
                   (IF items[i].content > 0 THEN items[i].content
                    ELSE items[i].description) <= 50) =>
                  /\ r.success = TRUE
                  /\ TwoFlagged(r.market_trends)
                  /\ TwoFlagged(r.opportunities)
    /\ (pipe_pc = "done" /\ pipe_ctx["web_content"] = <<>>
          /\ pipe_ctx["news_data"] = <<>>) =>
          /\ pipe_final.success = TRUE
          /\ pipe_final.data_sources = 0
          /\ TwoFlagged(pipe_final.market_trends)
          /\ TwoFlagged(pipe_final.opportunities)
          /\ pipe_final.report_content # <<>>

\* C16 witness: every collaborator returns None, the run is complete.
C16_Witness ==
    /\ env = [sources |-> "none", llm |-> "none"]
    /\ pipe_devs = 0
    /\ newsdata
    /\ pipe_pc = "done"
    /\ pipe_final.data_sources = 0
    /\ Len(pipe_final.market_trends) = 2
    /\ Len(pipe_final.report_content) > 0

\* C17: in the analyst's trend, opportunity and landscape sub-tasks an LLM
\* output of the wrong structure gives what a raising LLM call gives: the two
\* flagged records, or the default landscape with Medium concentration and
\* intensity, never an empty list or an empty mapping.
C17_WrongStructureLikeRaise ==
    pipe_last = "analyst" =>
        \A k \in {"market_trends", "opportunities", "competitive_landscape"} :
            (CallOf(k) \in DOMAIN pipe_ext /\ pipe_ext[CallOf(k)] = "wrong") =>
                LET got == pipe_results["analyst"][k]
                    raised == analyst_execute(pipe_in,
                                  [pipe_ext EXCEPT ![CallOf(k)] = "raise"])[k]
                IN  /\ got = raised
                    /\ got # <<>>
                    /\ k = "competitive_landscape" =>
                          /\ DOMAIN got # {}
                          /\ got.market_concentration = "Medium"
                          /\ got.competitive_intensity = "Medium"
                    /\ k # "competitive_landscape" => TwoFlagged(got)

\* The fallback value of a gathered sub-task's output key.
IsFallback(k, v) ==
    CASE k \in {"web_content", "news_data", "trending_topics", "action_plans",
                "chart_files"} -> v = <<>>
      [] k \in {"market_trends", "opportunities"} -> TwoFlagged(v)
      [] k = "competitive_landscape" ->
           /\ DOMAIN v # {}
           /\ v.market_concentration = "Medium"
           /\ v.competitive_intensity = "Medium"
      [] k = "strategic_recommendations" ->
           Len(v) = 1 /\ v[1].strategy_title = "Market Entry Strategy"
      [] k = "risk_assessment" ->
           DOMAIN v # {} /\ v.overall_risk_level = "Medium" /\ v.market_risks = <<>>
      [] k = "success_metrics" -> DOMAIN v # {} /\ v.financial_metrics = <<>>
      [] k = "report_content" ->
           Len(v) = 2 /\ v[2] = "Report generation encountered an error."
      [] k = "dashboard_data" -> DOMAIN v = {}

\* The gathered sub-tasks of the stage run last whose external call raised.
RaisedSubTasks ==
    IF pipe_last \in AgentKeys
    THEN {k \in Gathered(pipe_last) :
            CallOf(k) \in DOMAIN pipe_ext /\ pipe_ext[CallOf(k)] = "raise"}
    ELSE {}

\* C13: in each stage, when the external call of exactly one gathered
\* sub-task raises, the stage returns success, that sub-task's key holds its
\* fallback, and the key of every other gathered sub-task holds the value it
\* holds when that call does not raise, however it ends instead.
C13_OneSubTaskFails ==
    \A k \in RaisedSubTasks :
        RaisedSubTasks = {k} =>
            LET r == pipe_results[pipe_last]
            IN  /\ r.success = TRUE
                /\ IsFallback(k, r[k])
                /\ \A alt \in OutcomesOf(CallOf(k)) \ {"raise"} :
                      \A j \in Gathered(pipe_last) \ {k} :
                          r[j] = stage_execute(pipe_last, pipe_in,
                                     [pipe_ext EXCEPT ![CallOf(k)] = alt])[j]

\* C13 witness: the strategist's risk call raised, its recommendations are
\* the LLM's.
C13_Witness ==
    /\ pipe_last = "strategist"
    /\ RaisedSubTasks = {"risk_assessment"}
    /\ pipe_ext["recs_llm"] = "ok"
    /\ pipe_results["strategist"].strategic_recommendations = LLMRecommendations
    /\ pipe_results["strategist"].risk_assessment = DefaultRisk

\* C21: the implementation sequence has one entry per recommendation, in
\* input order, numbered from 1, whatever the implementation_steps of the
\* records are; a missing or empty field gives that entry no dependencies.
C21_SequencePerRecommendation ==
    LET seq == road_map.implementation_sequence
    IN  /\ Len(seq) = Len(road_recs)
        /\ \A i \in 1..Len(seq) :
              /\ seq[i].sequence_number = i
              /\ seq[i].strategy_title = road_recs[i].strategy_title
              /\ ("implementation_steps" \notin DOMAIN road_recs[i]
                   \/ road_recs[i].implementation_steps.value = <<>>) =>
                     seq[i].dependencies = <<>>

\* The records of a list that are in exactly one of three buckets.
InOneBucket(recs, b1, b2, b3) ==
    /\ \A i \in 1..Len(recs) :
          Cardinality({b \in {1, 2, 3} :
              \E j \in 1..Len(<<b1, b2, b3>>[b]) : <<b1, b2, b3>>[b][j] = recs[i]}) = 1
    /\ Len(b1) + Len(b2) + Len(b3) = Len(recs)

\* C22: every recommendation is in exactly one priority bucket and in exactly
\* one timeline bucket of the roadmap, and the sizes of the buckets of each
\* view add up to the number of recommendations.
C22_RoadmapPartitions ==
    /\ InOneBucket(road_recs, road_map.strategic_priorities.high_priority,
                   road_map.strategic_priorities.medium_priority,
                   road_map.strategic_priorities.low_priority)
    /\ InOneBucket(road_recs, road_map.timeline_view.short_term,
                   road_map.timeline_view.medium_term,
                   road_map.timeline_view.long_term)

\* C23: the directory a run of the formatter uses did not exist before the
\* run made it, so no two runs, however close in time, share a directory.
C23_FreshReportDirectory ==
    fmt_last # EmptyDict => ~fmt_last.existed

\* C24: export_files has an entry for exactly the formats whose export
\* succeeded, and the stage succeeds; a later format's failure removes no
\* entry of a format already written.
C24_ExportsThatSucceeded ==
    fmt_last # EmptyDict =>
        /\ fmt_last.success
        /\ fmt_last.export_files = ExportsWritten(fmt_last.outcomes)

\* C25: load_state of an id gives a state with the query, the market domain
\* and the three lists of the state last saved under it, whatever was saved
\* under other ids since; load_state of an id never saved gives None.
C25_HistoryRoundTrip ==
    hist_load # EmptyDict =>
        IF hist_load.saved = NoneState THEN hist_load.result = NoneState
        ELSE /\ hist_load.result # NoneState
             /\ hist_load.result.query = hist_load.saved.query
             /\ hist_load.result.market_domain = hist_load.saved.market_domain
             /\ hist_load.result.market_trends = hist_load.saved.market_trends
             /\ hist_load.result.opportunities = hist_load.saved.opportunities
             /\ hist_load.result.strategic_recommendations =
                    hist_load.saved.strategic_recommendations

\* The entries of a cache, whatever their order.
Entries(cache) == {cache[i] : i \in 1..Len(cache)}

\* The unexpired entries a cache holds for a key at a time.
Unexpired(cache, key, time) == {e \in Entries(cache) : e.key = key /\ time < e.expires}

\* C26: the search cache never holds more than its maximum of entries; an
\* attempt of search_with_tavily that finds an unexpired entry for its query
\* returns that entry's list without a request and leaves the entries as they
\* are; an attempt that finds none (no entry, or one whose TTL has elapsed)
\* issues a request; a failed request leaves the cache unchanged, and the only
\* entry ever written is the list of a successful request, under the query's
\* key, expiring one TTL later.
C26_SearchCacheContract ==
    [][ /\ Len(search_cache') <= CacheSize
        /\ IF search_pc # EmptyDict /\ search_pc' # search_pc
           THEN LET key == CacheKey(search_pc.query)
                    found == Unexpired(search_cache, key, cache_now)
                IN  /\ found # {} =>
                          /\ ~search_step'.requested
                          /\ search_ret' \in {[raised |-> FALSE, value |-> e.value] :
                                                e \in found}
                          /\ Entries(search_cache') = Entries(search_cache)
                    /\ found = {} => search_step'.requested
                    /\ search_step'.failed => search_cache' = search_cache
                    /\ Entries(search_cache') \ Entries(search_cache) # {} =>
                          /\ search_step'.requested /\ ~search_step'.failed
                          /\ Entries(search_cache') \ Entries(search_cache) =
                                {[key |-> key, value |-> search_ret'.value,
                                  expires |-> cache_now + CacheTTL]}
           ELSE search_cache' = search_cache ]_vars

\* A full cache served a query from an entry written after the clock started.
C26_Witness ==
    /\ Len(search_cache) = CacheSize
    /\ search_step # EmptyDict
    /\ ~search_step.requested
    /\ search_step.at >= CacheTTL
    /\ search_pc = EmptyDict

\* C27: when cancel_workflow has completed while a stage's execute was in
\* flight and that execute then returns normally, the stage's agent stays
\* cancelled and workflow_status stays cancelled.
C27_CancellationIsSticky ==
    [][ \A a \in AgentKeys :
          (/\ call_pc = a /\ call_pc' # a
           /\ agent_status[a] = "cancelled" /\ workflow_status = "cancelled"
           /\ last_run'.agent = a /\ last_run'.exec = "ok") =>
              /\ agent_status'[a] = "cancelled"
              /\ workflow_status' = "cancelled" ]_vars

\* C28: an agent's run is entered only when the agent is not running, so at
\* most one invocation of it is in progress at a time.
C28_OneInvocationAtATime ==
    [][ /\ \A c \in RunCallers :
             (ov_runs[c] = "none" /\ ov_runs'[c] = "executing") => ov_status # "running"
        /\ Cardinality({c \in RunCallers : ov_runs'[c] = "executing"}) <= 1 ]_vars

\* C29: two run_intelligence_workflow calls that succeeded have different
\* workflow ids, and the history holds one record per successful run.
C29_RunIdsUnique ==
    /\ \A c, d \in WorkflowCalls :
          (c # d /\ id_pc[c] = "done" /\ id_pc[d] = "done") => id_ids[c] # id_ids[d]
    /\ Cardinality(DOMAIN id_db) = Cardinality({c \in WorkflowCalls : id_pc[c] = "done"})

\* The requests of the log that failed.
FailedRequests == {i \in 1..Len(fc_log) : SearchFails(fc_log[i].outcome)}

\* C30: search_and_scrape issues at most 3 requests and has returned once the
\* third is over; no request follows one that succeeded, whose results it
\* returns; it sleeps 1 s after the first failure and 2 s after the second and
\* not after the third; when all three fail it returns the empty list, and
\* the reader's web content is empty.
C30_FirecrawlRetries ==
    /\ Len(fc_log) <= 3
    /\ Len(fc_log) = 3 => fc_pc # "running"
    /\ \A i \in 1..Len(fc_log) : i < Len(fc_log) => i \in FailedRequests
    /\ fc_slept = SubSeq(<<1, 2>>, 1, Min(Cardinality(FailedRequests), 2))
    /\ fc_pc # "running" =>
          IF Cardinality(FailedRequests) = Len(fc_log)
          THEN Len(fc_log) = 3 /\ fc_ret = <<>>
          ELSE fc_ret = SearchResults(fc_log[Len(fc_log)].outcome)
    /\ (fc_pc = "collected" /\ Cardinality(FailedRequests) = Len(fc_log)) => fc_web = <<>>

\* Three requests failed, a timeout among them: two sleeps, an empty list.
C30_Witness ==
    /\ fc_pc = "collected"
    /\ Len(fc_log) = 3
    /\ Cardinality(FailedRequests) = 3
    /\ \E i \in 1..3 : fc_log[i].outcome = "timeout"
    /\ fc_slept = <<1, 2>>
    /\ fc_web = <<>>

====
